---------------------------- MODULE Spec2Model ----------------------------
(***************************************************************************)
(* Verification model of the .NET -> React/Python refactoring scripts:     *)
(*   generate_migration.py   (MigrationGenerator)                          *)
(*   assess_dotnet_app.py    (DotNetAssessor)                              *)
(*   convert_razor_to_jsx.py (RazorToJSXConverter)                         *)
(*                                                                         *)
(* Text is modelled by strings, read character by character (SubSeq), so   *)
(* that the substring tests, case conversions and regular expressions of   *)
(* the scripts are computed as the scripts compute them.  The text of a    *)
(* source file is the sequence of its whitespace-separated words; a \s+ or *)
(* \s* between two parts of a pattern stands for the separator between two *)
(* consecutive words.  Source texts are taken in canonical spacing: a      *)
(* keyword, a brace, "get;" and "set;" each stand as a word of their own,  *)
(* and a quoted value holds no white space.                                *)
(***************************************************************************)
EXTENDS Integers, Sequences, FiniteSets, TLC

VARIABLES
    \* MigrationGenerator
    gen_tree,         \* the files under models_path, in the order rglob yields them
    framework_arg,    \* the target_framework argument of the constructor
    target_framework, \* self.target_framework
    models,           \* self.models
    models_py,        \* the lines of <output_dir>/models.py (<<>>: not written)
    migration_guide,  \* the lines of <output_dir>/MIGRATION_GUIDE.md (<<>>: not written)
    gen_pc,           \* "idle" | "new" | "constructed" | "scanned" | "written" | "done" | "raised"
    \* the pure functions
    csharp_type,   \* _map_type: the source type token handed to the mapper
    map_result,    \* _map_type: the (python type, storage type) pair returned
    map_pc,        \* _map_type: "idle" | "call" | "returned"
    name,          \* _to_snake_case: the name handed to the converter
    snake_once,    \* _to_snake_case(name)
    snake_twice,   \* _to_snake_case(_to_snake_case(name))
    snake_pc,      \* "idle" | "call" | "once" | "twice"
    \* DotNetAssessor
    project_tree,  \* the files under project_path, in the order glob yields them
    inventory,     \* self.inventory
    diagnostics,   \* the "Skipping ..." lines printed by _read_file, in order
    assess_pc,     \* "idle" | "new" | the step of assess() that has returned | "raised"
    \* one call of DotNetAssessor._read_file
    file_path,     \* the file handed to _read_file
    read_result,   \* what the call returned, printed and raised
    read_pc,       \* "idle" | "call" | "returned"
    \* RazorToJSXConverter
    razor_input,   \* input_path: whether it is a file, and the files it holds
    razor_files,   \* the list razor_files of convert_directory
    razor_next,    \* the position in razor_files of the file converted next
    components,    \* the .jsx files under output_dir: path and text, as written
    report,        \* the lines of <output_dir>/CONVERSION_REPORT.md (<<>>: not written)
    razor_printed, \* the lines printed about the files
    razor_pc,      \* "idle" | "new" | "constructed" | "converting" | "converted" | "done" | "raised"
    \* BackendInitializer
    backend_args,      \* the framework and db_type arguments of the constructor
    backend_framework, \* self.framework
    backend_db_type,   \* self.db_type
    backend_created,   \* the directories and files made under project_path, in order
    requirements_txt,  \* the lines of requirements.txt (<<>>: not written)
    backend_pc,        \* "idle" | "new" | "constructed" | the step of initialize() that has returned | "raised"
    \* the caller of the one MigrationGenerator and the one DotNetAssessor
    gen_calls,     \* the calls of generate() that were over when the current one began
    assess_calls   \* the calls of assess() that were over when the current one began

mapVars   == <<csharp_type, map_result, map_pc>>
snakeVars == <<name, snake_once, snake_twice, snake_pc>>
genVars   == <<gen_tree, framework_arg, target_framework, models, models_py,
               migration_guide, gen_pc>>
assessVars == <<project_tree, inventory, diagnostics, assess_pc>>
readVars  == <<file_path, read_result, read_pc>>
razorVars == <<razor_input, razor_files, razor_next, components, report,
               razor_printed, razor_pc>>
backendVars == <<backend_args, backend_framework, backend_db_type, backend_created,
                 requirements_txt, backend_pc>>
callVars  == <<gen_calls, assess_calls>>
vars      == <<mapVars, snakeVars, genVars, assessVars, readVars, razorVars, backendVars,
               callVars>>

\* what the actions of one component leave alone
exceptMap    == <<snakeVars, genVars, assessVars, readVars, razorVars, backendVars, callVars>>
exceptSnake  == <<mapVars, genVars, assessVars, readVars, razorVars, backendVars, callVars>>
exceptGen    == <<mapVars, snakeVars, assessVars, readVars, razorVars, backendVars, callVars>>
exceptAssess == <<mapVars, snakeVars, genVars, readVars, razorVars, backendVars, callVars>>
exceptRead   == <<mapVars, snakeVars, genVars, assessVars, razorVars, backendVars, callVars>>
exceptRazor  == <<mapVars, snakeVars, genVars, assessVars, readVars, backendVars, callVars>>
exceptBackend == <<mapVars, snakeVars, genVars, assessVars, readVars, razorVars, callVars>>

-----------------------------------------------------------------------------
(* Characters and strings                                                  *)

UpperLetters == "ABCDEFGHIJKLMNOPQRSTUVWXYZ"
LowerLetters == "abcdefghijklmnopqrstuvwxyz"
DigitChars   == "0123456789"

\* the i-th character of s ("" past its ends), and s from its i-th character on
Ch(s, i)   == IF i >= 1 /\ i <= Len(s) THEN SubSeq(s, i, i) ELSE ""
From(s, i) == SubSeq(s, i, Len(s))

\* position of character c in s, 0 when absent
IndexIn(c, s) ==
    IF \E i \in 1..Len(s) : Ch(s, i) = c
    THEN CHOOSE i \in 1..Len(s) : Ch(s, i) = c /\ \A j \in 1..(i - 1) : Ch(s, j) # c
    ELSE 0

\* the characters of a string, as a set
CharsOf(s) == {Ch(s, i) : i \in 1..Len(s)}

\* the classes [A-Z], [a-z], \d, \w (ASCII) and [\w\.] as sets of characters
UpperSet    == CharsOf(UpperLetters)
LowerSet    == CharsOf(LowerLetters)
DigitSet    == CharsOf(DigitChars)
WordChars   == UpperSet \cup LowerSet \cup DigitSet \cup {"_"}
DottedChars == WordChars \cup {"."}

IsUpper(c) == c \in UpperSet
IsLower(c) == c \in LowerSet
IsDigit(c) == c \in DigitSet
IsWordChar(c) == c \in WordChars

\* str.lower() on one character
LowerChar(c) == IF IsUpper(c) THEN Ch(LowerLetters, IndexIn(c, UpperLetters)) ELSE c
\* str.upper() on one character (used only to enumerate letter-casings)
UpperChar(c) == IF IsLower(c) THEN Ch(UpperLetters, IndexIn(c, LowerLetters)) ELSE c

\* str.lower()
RECURSIVE Lower(_)
Lower(s) == IF s = "" THEN "" ELSE LowerChar(Ch(s, 1)) \o Lower(From(s, 2))

\* k occurs in t at position i (1-based)
MatchesAt(k, t, i) == i >= 1 /\ i + Len(k) - 1 <= Len(t) /\ SubSeq(t, i, i + Len(k) - 1) = k

\* Python's "k in t" on strings
IsSubstring(k, t) == \E i \in 1..(Len(t) - Len(k) + 1) : MatchesAt(k, t, i)

SetMin(S) == CHOOSE x \in S : \A y \in S : x <= y

\* Python's None where a string is expected otherwise (no pattern of the
\* scripts captures this text)
None == "<None>"

-----------------------------------------------------------------------------
(* MigrationGenerator.TYPE_MAPPINGS and MigrationGenerator._map_type       *)

\* the table with 'byte' iterated before 'byte[]'
TYPE_MAPPINGS_byte_before_array ==
    << [key |-> "string",   py |-> "str",      sa |-> "String"],
       [key |-> "int",      py |-> "int",      sa |-> "Integer"],
       [key |-> "long",     py |-> "int",      sa |-> "BigInteger"],
       [key |-> "bool",     py |-> "bool",     sa |-> "Boolean"],
       [key |-> "datetime", py |-> "datetime", sa |-> "DateTime"],
       [key |-> "decimal",  py |-> "Decimal",  sa |-> "Numeric"],
       [key |-> "float",    py |-> "float",    sa |-> "Float"],
       [key |-> "double",   py |-> "float",    sa |-> "Float"],
       [key |-> "guid",     py |-> "str",      sa |-> "String(36)"],
       [key |-> "short",    py |-> "int",      sa |-> "SmallInteger"],
       [key |-> "byte",     py |-> "int",      sa |-> "SmallInteger"],
       [key |-> "byte[]",   py |-> "bytes",    sa |-> "LargeBinary"] >>

\* The table in iteration (insertion) order: key, python type, storage type.
TYPE_MAPPINGS ==
    << [key |-> "string",   py |-> "str",      sa |-> "String"],
       [key |-> "int",      py |-> "int",      sa |-> "Integer"],
       [key |-> "long",     py |-> "int",      sa |-> "BigInteger"],
       [key |-> "bool",     py |-> "bool",     sa |-> "Boolean"],
       [key |-> "datetime", py |-> "datetime", sa |-> "DateTime"],
       [key |-> "decimal",  py |-> "Decimal",  sa |-> "Numeric"],
       [key |-> "float",    py |-> "float",    sa |-> "Float"],
       [key |-> "double",   py |-> "float",    sa |-> "Float"],
       [key |-> "guid",     py |-> "str",      sa |-> "String(36)"],
       [key |-> "byte[]",   py |-> "bytes",    sa |-> "LargeBinary"],
       [key |-> "short",    py |-> "int",      sa |-> "SmallInteger"],
       [key |-> "byte",     py |-> "int",      sa |-> "SmallInteger"] >>

\* _map_type without its final "return 'str', 'String'"
map_type_no_default(csharp) ==
    LET csharp_type_lower == Lower(csharp)
        hits == {i \in DOMAIN TYPE_MAPPINGS :
                    IsSubstring(TYPE_MAPPINGS[i].key, csharp_type_lower)}
    IN  IF hits # {}
        THEN <<TYPE_MAPPINGS[SetMin(hits)].py, TYPE_MAPPINGS[SetMin(hits)].sa>>
        ELSE None

\* The first table entry, in iteration order, whose key is a substring of the
\* lower-cased token decides; otherwise the default pair.
_map_type(csharp) ==
    LET csharp_type_lower == Lower(csharp)
        hits == {i \in DOMAIN TYPE_MAPPINGS :
                    IsSubstring(TYPE_MAPPINGS[i].key, csharp_type_lower)}
    IN  IF hits # {}
        THEN <<TYPE_MAPPINGS[SetMin(hits)].py, TYPE_MAPPINGS[SetMin(hits)].sa>>
        ELSE <<"str", "String">>

-----------------------------------------------------------------------------
(* MigrationGenerator._to_snake_case                                       *)

\* end of the greedy [a-z]+ run that holds position j
RECURSIVE LowerRunEnd(_, _)
LowerRunEnd(s, j) ==
    IF j + 1 <= Len(s) /\ IsLower(Ch(s, j + 1)) THEN LowerRunEnd(s, j + 1) ELSE j

\* re.sub('(.)([A-Z][a-z]+)', r'\1_\2', s) from position i on: leftmost
\* non-overlapping matches; "." matches any character but a newline.
RECURSIVE SubFirst(_, _)
SubFirst(s, i) ==
    IF i > Len(s) THEN ""
    ELSE IF /\ i + 2 <= Len(s)
            /\ Ch(s, i) # "\n"
            /\ IsUpper(Ch(s, i + 1))
            /\ IsLower(Ch(s, i + 2))
         THEN LET e == LowerRunEnd(s, i + 2)
              IN  Ch(s, i) \o "_" \o SubSeq(s, i + 1, e) \o SubFirst(s, e + 1)
         ELSE Ch(s, i) \o SubFirst(s, i + 1)

\* re.sub('([a-z0-9])([A-Z])', r'\1_\2', s) from position i on
RECURSIVE SubSecond(_, _)
SubSecond(s, i) ==
    IF i > Len(s) THEN ""
    ELSE IF /\ i + 1 <= Len(s)
            /\ (IsLower(Ch(s, i)) \/ IsDigit(Ch(s, i)))
            /\ IsUpper(Ch(s, i + 1))
         THEN Ch(s, i) \o "_" \o Ch(s, i + 1) \o SubSecond(s, i + 2)
         ELSE Ch(s, i) \o SubSecond(s, i + 1)

\* _to_snake_case without the final .lower()
to_snake_case_no_lower(n) == SubSecond(SubFirst(n, 1), 1)

_to_snake_case(n) == Lower(SubSecond(SubFirst(n, 1), 1))

-----------------------------------------------------------------------------
(* Words of a source text and the character classes of the patterns        *)

\* the i-th word of a text, "" past its ends
Tok(content, i) == IF i \in 1..Len(content) THEN content[i] ELSE ""

\* \w+ over a whole word
IsWord(w) == w # "" /\ \A i \in 1..Len(w) : IsWordChar(Ch(w, i))
\* [\w\[\]<>?]
IsTypeChar(c) == IsWordChar(c) \/ c \in {"[", "]", "<", ">", "?"}
\* [\w\[\]<>?]+ over a whole word
IsTypeToken(w) == w # "" /\ \A i \in 1..Len(w) : IsTypeChar(Ch(w, i))
\* \[([^\]]+)\] over a whole word
IsAnnotationBlock(w) ==
    /\ Len(w) >= 3
    /\ Ch(w, 1) = "[" /\ Ch(w, Len(w)) = "]"
    /\ \A i \in 2..(Len(w) - 1) : Ch(w, i) # "]"
\* group 1 of \[([^\]]+)\]
AnnotationText(w) == SubSeq(w, 2, Len(w) - 1)

\* end of the greedy run of characters of the set C that starts at i (i - 1 when empty)
RECURSIVE RunEnd(_, _, _)
RunEnd(s, i, C) ==
    IF i <= Len(s) /\ Ch(s, i) \in C THEN RunEnd(s, i + 1, C) ELSE i - 1

\* the longest prefix of w made of characters of the set C
PrefixOf(w, C) == SubSeq(w, 1, RunEnd(w, 1, C))

\* re.search(pre (C+) post, text).group(1), or None: the leftmost place where
\* pre is followed by a non-empty run of C and then by post (no character of
\* post's head is in C, so the greedy run is the only candidate)
SearchCapture(text, pre, C, post) ==
    LET hit(i) == /\ MatchesAt(pre, text, i)
                  /\ RunEnd(text, i + Len(pre), C) >= i + Len(pre)
                  /\ MatchesAt(post, text, RunEnd(text, i + Len(pre), C) + 1)
        hits == {i \in 1..Len(text) : hit(i)}
    IN  IF hits = {} THEN None
        ELSE SubSeq(text, SetMin(hits) + Len(pre), RunEnd(text, SetMin(hits) + Len(pre), C))

\* the sequences ss[lo], ..., ss[hi] one after the other
RECURSIVE ConcatRange(_, _, _)
ConcatRange(ss, lo, hi) ==
    IF lo > hi THEN <<>>
    ELSE IF lo = hi THEN ss[lo]
    ELSE ConcatRange(ss, lo, (lo + hi) \div 2) \o ConcatRange(ss, ((lo + hi) \div 2) + 1, hi)

\* str.replace(c, '') for a one-character c
RemoveChar(s, c) ==
    IF s = "" THEN ""
    ELSE ConcatRange([i \in 1..Len(s) |-> IF Ch(s, i) = c THEN "" ELSE Ch(s, i)], 1, Len(s))

\* str.split(c) for one character c, re.split on a class of characters: the
\* parts of s between the characters of seps
SplitOn(s, seps) ==
    LET hits == {i \in 1..Len(s) : Ch(s, i) \in seps}
        cut(k) == IF k = 0 THEN 0
                  ELSE IF k > Cardinality(hits) THEN Len(s) + 1
                  ELSE CHOOSE h \in hits : Cardinality({x \in hits : x < h}) = k - 1
    IN  [k \in 1..(Cardinality(hits) + 1) |-> SubSeq(s, cut(k - 1) + 1, cut(k) - 1)]

\* str.split(sep) for a non-empty sep
RECURSIVE Split(_, _)
Split(s, sep) ==
    LET hits == {i \in 1..Len(s) : MatchesAt(sep, s, i)}
    IN  IF hits = {} THEN <<s>>
        ELSE <<SubSeq(s, 1, SetMin(hits) - 1)>> \o Split(From(s, SetMin(hits) + Len(sep)), sep)

IsSpace(c) == c \in {" ", "\n", "\t", "\r"}
\* str.strip()
Strip(s) ==
    LET kept == {i \in 1..Len(s) : ~IsSpace(Ch(s, i))}
    IN  IF kept = {} THEN ""
        ELSE SubSeq(s, SetMin(kept), CHOOSE i \in kept : \A k \in kept : k <= i)

\* str.endswith
EndsWith(s, suffix) == MatchesAt(suffix, s, Len(s) - Len(suffix) + 1)

\* int(digits) written back by an f-string: the decimal digits without leading zeros
RECURSIVE IntText(_)
IntText(digits) ==
    IF Len(digits) > 1 /\ Ch(digits, 1) = "0" THEN IntText(From(digits, 2)) ELSE digits

\* sep.join(parts)
Join(parts, sep) ==
    IF parts = <<>> THEN ""
    ELSE ConcatRange([k \in 1..Len(parts) |-> IF k = 1 THEN parts[1] ELSE sep \o parts[k]],
                     1, Len(parts))

-----------------------------------------------------------------------------
(* MigrationGenerator: extraction (_parse_properties, _parse_relationships, *)
(* _parse_model, _is_model_file)                                           *)

\* number of consecutive annotation blocks from word i on: (?:\[([^\]]+)\]\s*)*
RECURSIVE AnnotRun(_, _)
AnnotRun(content, i) ==
    IF IsAnnotationBlock(Tok(content, i)) THEN 1 + AnnotRun(content, i + 1) ELSE 0

\* prop_pattern matches with "public" at word p
PropDeclAt(content, p) ==
    /\ Tok(content, p) = "public"
    /\ IsTypeToken(Tok(content, p + 1))
    /\ IsWord(Tok(content, p + 2))
    /\ Tok(content, p + 3) = "{"
    /\ Tok(content, p + 4) = "get;"
    /\ Tok(content, p + 5) = "set;"
    /\ Tok(content, p + 6) = "}"

\* the body of the finditer loop of _parse_properties for one match:
\* annotations_str is group 1 ('' when the group did not take part)
PropertyInfo(annotations_str, type_token, prop_name) ==
    LET annotations ==
            [i \in 1..Len(SelectSeq(Split(annotations_str, "]["), LAMBDA a : a # ""))
                |-> Strip(SelectSeq(Split(annotations_str, "]["), LAMBDA a : a # "")[i])]
        any(word) == \E i \in DOMAIN annotations : IsSubstring(word, annotations[i])
        nullable == IsSubstring("?", type_token)
        ctype == RemoveChar(type_token, "?")
        is_fk == any("ForeignKey")
        max_length_match == SearchCapture(annotations_str, "MaxLength(", DigitSet, ")")
        str_len_match == SearchCapture(annotations_str, "StringLength(", DigitSet, ")")
    IN  [ name           |-> prop_name,
          csharp_type    |-> ctype,
          python_type    |-> _map_type(ctype)[1],
          nullable       |-> nullable,
          is_key         |-> any("Key"),
          is_foreign_key |-> is_fk,
          foreign_table  |-> IF is_fk
                             THEN SearchCapture(annotations_str, "ForeignKey(\"", WordChars, "\")")
                             ELSE None,
          max_length     |-> IF max_length_match # None THEN IntText(max_length_match)
                             ELSE IF IsSubstring("StringLength", annotations_str)
                                     /\ str_len_match # None
                                  THEN IntText(str_len_match)
                             ELSE None,
          is_required    |-> any("Required"),
          default_value  |-> None,
          annotations    |-> annotations ]

\* re.finditer(prop_pattern, content) from word i on: a match starts at the
\* leftmost word from which the annotation blocks and the declaration follow
\* one another; group 1 holds the text of the last block repeated
RECURSIVE PropsFrom(_, _)
PropsFrom(content, i) ==
    IF i > Len(content) THEN <<>>
    ELSE LET k == AnnotRun(content, i)
         IN  IF PropDeclAt(content, i + k)
             THEN <<PropertyInfo(IF k = 0 THEN ""
                                 ELSE AnnotationText(Tok(content, i + k - 1)),
                                 Tok(content, i + k + 1),
                                 Tok(content, i + k + 2))>>
                  \o PropsFrom(content, i + k + 7)
             ELSE PropsFrom(content, i + 1)

_parse_properties(content) == PropsFrom(content, 1)

\* (?:ICollection|List)<(\w+)> over a whole word: the element type, or None
CollectionElement(w) ==
    LET inner(pre) ==
            IF /\ MatchesAt(pre, w, 1)
               /\ RunEnd(w, Len(pre) + 1, WordChars) = Len(w) - 1
               /\ Len(w) - 1 >= Len(pre) + 1
               /\ Ch(w, Len(w)) = ">"
            THEN SubSeq(w, Len(pre) + 1, Len(w) - 1)
            ELSE None
    IN  IF inner("ICollection<") # None THEN inner("ICollection<") ELSE inner("List<")

\* one_to_many_pattern with "public" at word p: <<related, property>> or None
OneToManyAt(content, p) ==
    LET t == IF Tok(content, p + 1) = "virtual" THEN p + 2 ELSE p + 1
    IN  IF /\ Tok(content, p) = "public"
           /\ CollectionElement(Tok(content, t)) # None
           /\ IsWord(Tok(content, t + 1))
           /\ Ch(Tok(content, t + 2), 1) = "{"
        THEN <<CollectionElement(Tok(content, t)), Tok(content, t + 1)>>
        ELSE <<>>

\* ref_pattern with "public" at word p, the type at word t
RefDeclAt(content, p, t) ==
    /\ Tok(content, p) = "public"
    /\ IsWord(Tok(content, t))
    /\ IsWord(Tok(content, t + 1))
    /\ Tok(content, t + 2) = "{"
    /\ Tok(content, t + 3) = "get;"
    /\ Tok(content, t + 4) = "set;"
    /\ Tok(content, t + 5) = "}"

\* ref_pattern at word p: <<type_name, prop_name>> or <<>>; the optional
\* "virtual" is taken when it leads to a match, left to group 1 otherwise
RefAt(content, p) ==
    IF Tok(content, p + 1) = "virtual" /\ RefDeclAt(content, p, p + 2)
    THEN <<Tok(content, p + 2), Tok(content, p + 3)>>
    ELSE IF RefDeclAt(content, p, p + 1)
    THEN <<Tok(content, p + 1), Tok(content, p + 2)>>
    ELSE <<>>

\* the primitive list of _parse_relationships with 'long' added
RefPrimitives_with_long ==
    {"string", "int", "bool", "DateTime", "decimal", "float", "double", "long"}

\* the literal list of _parse_relationships
RefPrimitives == {"string", "int", "bool", "DateTime", "decimal", "float", "double"}

\* the many-to-one loop body without the "endswith('Id')" test
ManyToOneOf_no_id_skip(type_name, prop_name) ==
    IF type_name \notin RefPrimitives
    THEN <<[type |-> "many_to_one", related_model |-> type_name,
            property_name |-> prop_name]>>
    ELSE <<>>

\* the many-to-one loop body for one match: the records it appends
ManyToOneOf(type_name, prop_name) ==
    IF type_name \notin RefPrimitives /\ ~EndsWith(prop_name, "Id")
    THEN <<[type |-> "many_to_one", related_model |-> type_name,
            property_name |-> prop_name]>>
    ELSE <<>>

RECURSIVE OneToManyFrom(_, _)
OneToManyFrom(content, i) ==
    IF i > Len(content) THEN <<>>
    ELSE (IF OneToManyAt(content, i) # <<>>
          THEN <<[type |-> "one_to_many",
                  related_model |-> OneToManyAt(content, i)[1],
                  property_name |-> OneToManyAt(content, i)[2]]>>
          ELSE <<>>) \o OneToManyFrom(content, i + 1)

RECURSIVE ManyToOneFrom(_, _)
ManyToOneFrom(content, i) ==
    IF i > Len(content) THEN <<>>
    ELSE (IF RefAt(content, i) # <<>>
          THEN ManyToOneOf(RefAt(content, i)[1], RefAt(content, i)[2])
          ELSE <<>>) \o ManyToOneFrom(content, i + 1)

\* all one-to-many records first, then the many-to-one records
_parse_relationships(content) == OneToManyFrom(content, 1) \o ManyToOneFrom(content, 1)

\* re.search(r'public\s+class\s+(\w+)(?:\s*:\s*(\w+))?', content): the word
\* index of the leftmost "public", 0 when there is no match
ClassMatch(content) ==
    LET hits == {i \in 1..Len(content) :
                    /\ content[i] = "public"
                    /\ Tok(content, i + 1) = "class"
                    /\ PrefixOf(Tok(content, i + 2), WordChars) # ""}
    IN  IF hits = {} THEN 0 ELSE SetMin(hits)

\* group 2 of the class pattern: the base name after ":" or None
BaseClassAt(content, i) ==
    IF /\ PrefixOf(Tok(content, i + 2), WordChars) = Tok(content, i + 2)
       /\ Tok(content, i + 3) = ":"
       /\ PrefixOf(Tok(content, i + 4), WordChars) # ""
    THEN PrefixOf(Tok(content, i + 4), WordChars)
    ELSE None

\* re.search(r'namespace\s+([\w\.]+)', content), 'Unknown' without a match
NamespaceOf(content) ==
    LET hits == {i \in 1..Len(content) :
                    /\ content[i] = "namespace"
                    /\ PrefixOf(Tok(content, i + 1), DottedChars) # ""}
    IN  IF hits = {} THEN "Unknown"
        ELSE PrefixOf(Tok(content, SetMin(hits) + 1), DottedChars)

\* re.search(r'\[Table\("(\w+)"\)\]', content): group 1 or None
TableNameOf(content) ==
    LET hits == {i \in 1..Len(content) :
                    SearchCapture(content[i], "[Table(\"", WordChars, "\")]") # None}
    IN  IF hits = {} THEN None
        ELSE SearchCapture(content[SetMin(hits)], "[Table(\"", WordChars, "\")]")

\* Optional[ModelInfo] as a sequence: <<>> for None, <<model>> otherwise
_parse_model(content) ==
    LET c == ClassMatch(content)
    IN  IF c = 0 THEN <<>>
        ELSE IF BaseClassAt(content, c) # None
                /\ IsSubstring("DbContext", BaseClassAt(content, c))
        THEN <<>>
        ELSE <<[ name          |-> PrefixOf(Tok(content, c + 2), WordChars),
                 namespace     |-> NamespaceOf(content),
                 properties    |-> _parse_properties(content),
                 base_class    |-> BaseClassAt(content, c),
                 relationships |-> _parse_relationships(content),
                 table_name    |-> TableNameOf(content) ]>>

\* any of the six indicator patterns is found in the text
_is_model_file(content) ==
    \/ ClassMatch(content) # 0
    \/ \E i \in 1..Len(content) : IsSubstring("[Table(", content[i])
    \/ \E i \in 1..Len(content) :
          EndsWith(content[i], ":") /\ MatchesAt("DbContext", Tok(content, i + 1), 1)
    \/ \E i \in 1..Len(content) : IsSubstring("DbSet<", content[i])
    \/ \E i \in 1..Len(content) : IsSubstring("[Key]", content[i])
    \/ \E i \in 1..Len(content) : IsSubstring("[Required]", content[i])

-----------------------------------------------------------------------------
(* MigrationGenerator: rendering                                           *)

\* str(n) for a natural number
RECURSIVE NatText(_)
NatText(n) ==
    IF n < 10 THEN Ch(DigitChars, n + 1)
    ELSE NatText(n \div 10) \o Ch(DigitChars, (n % 10) + 1)

\* truth value of an Optional[str] / of an Optional[int] held as its decimal text
TruthyStr(x) == x # None /\ x # ""
TruthyInt(x) == x # None /\ x # "0"

_generate_sqlalchemy_column(prop) ==
    LET sa_type == _map_type(prop.csharp_type)[2]
        part0 == IF TruthyInt(prop.max_length)
                 THEN "String(" \o prop.max_length \o ")"
                 ELSE sa_type
        parts == (IF prop.is_foreign_key /\ TruthyStr(prop.foreign_table)
                  THEN <<"ForeignKey(\"" \o _to_snake_case(prop.foreign_table) \o ".id\")">>
                  ELSE <<>>) \o <<part0>>
        args == (IF prop.is_key THEN <<"primary_key=True">> ELSE <<>>)
                \o (IF ~prop.nullable /\ ~prop.is_key THEN <<"nullable=False">> ELSE <<>>)
                \o (IF TruthyStr(prop.default_value)
                    THEN <<"default=" \o prop.default_value>> ELSE <<>>)
        args_str == Join(args, ", ")
    IN  IF args_str # ""
        THEN "Column(" \o Join(parts, ", ") \o ", " \o args_str \o ")"
        ELSE "Column(" \o Join(parts, ", ") \o ")"

_generate_sqlalchemy_relationship(rel) ==
    IF rel.type = "one_to_many"
    THEN "relationship(\"" \o rel.related_model \o "\", back_populates=\""
         \o _to_snake_case(rel.property_name) \o "\")"
    ELSE "relationship(\"" \o rel.related_model \o "\")"

\* the column lines of _write_sqlalchemy_model written from last to first
SqlalchemyColumnLines_reversed(props) ==
    [i \in 1..Len(props) |->
        "    " \o _to_snake_case(props[Len(props) + 1 - i].name) \o " = "
        \o _generate_sqlalchemy_column(props[Len(props) + 1 - i])]

\* the "for prop in model.properties" loop of _write_sqlalchemy_model
SqlalchemyColumnLines(props) ==
    [i \in 1..Len(props) |->
        "    " \o _to_snake_case(props[i].name) \o " = "
        \o _generate_sqlalchemy_column(props[i])]

\* the "for rel in model.relationships" loop of _write_sqlalchemy_model
SqlalchemyRelationshipLines(rels) ==
    [i \in 1..Len(rels) |->
        "    " \o _to_snake_case(rels[i].property_name) \o " = "
        \o _generate_sqlalchemy_relationship(rels[i])]

\* the lines _write_sqlalchemy_model writes for one model
_write_sqlalchemy_model(model) ==
    LET table_name == IF TruthyStr(model.table_name) THEN model.table_name
                      ELSE _to_snake_case(model.name)
    IN  << "class " \o model.name \o "(Base):",
           "    \"\"\"Migrated from " \o model.namespace \o "." \o model.name \o "\"\"\"",
           "    __tablename__ = \"" \o table_name \o "\"",
           "" >>
        \o SqlalchemyColumnLines(model.properties)
        \o (IF model.relationships # <<>>
            THEN <<"">> \o SqlalchemyRelationshipLines(model.relationships)
            ELSE <<>>)
        \o <<"", "">>

\* field_mapping.get(python_type, 'CharField')
DjangoFieldType(python_type) ==
    CASE python_type = "str"      -> "CharField"
      [] python_type = "int"      -> "IntegerField"
      [] python_type = "bool"     -> "BooleanField"
      [] python_type = "datetime" -> "DateTimeField"
      [] python_type = "Decimal"  -> "DecimalField"
      [] python_type = "float"    -> "FloatField"
      [] python_type = "bytes"    -> "BinaryField"
      [] OTHER                    -> "CharField"

_generate_django_field(prop) ==
    LET mapped == DjangoFieldType(prop.python_type)
        is_fk == prop.is_foreign_key /\ TruthyStr(prop.foreign_table)
        args == (IF is_fk THEN <<"\"" \o prop.foreign_table \o "\"">> ELSE <<>>)
                \o (IF TruthyInt(prop.max_length) /\ mapped = "CharField"
                    THEN <<"max_length=" \o prop.max_length>>
                    ELSE IF mapped = "CharField" /\ ~TruthyInt(prop.max_length)
                    THEN <<"max_length=255">>
                    ELSE <<>>)
                \o (IF prop.python_type = "Decimal"
                    THEN <<"max_digits=18", "decimal_places=2">> ELSE <<>>)
                \o (IF prop.nullable THEN <<"null=True", "blank=True">> ELSE <<>>)
                \o (IF is_fk THEN <<"on_delete=models.CASCADE">> ELSE <<>>)
        django_field == IF is_fk THEN "ForeignKey" ELSE mapped
    IN  "models." \o django_field \o "(" \o Join(args, ", ") \o ")"

\* Django creates 'id' itself: a key property named id (any casing) is not written
DjangoWritten(prop) == ~prop.is_key \/ Lower(prop.name) # "id"

\* the "for prop in model.properties" loop of _write_django_model
DjangoFieldLines(props) ==
    LET written == SelectSeq(props, DjangoWritten)
    IN  [i \in 1..Len(written) |->
            "    " \o _to_snake_case(written[i].name) \o " = "
            \o _generate_django_field(written[i])]

\* the lines _write_django_model writes for one model
_write_django_model(model) ==
    << "class " \o model.name \o "(models.Model):",
       "    \"\"\"Migrated from " \o model.namespace \o "." \o model.name \o "\"\"\"",
       "" >>
    \o DjangoFieldLines(model.properties)
    \o (IF TruthyStr(model.table_name)
        THEN << "", "    class Meta:",
                "        db_table = \"" \o model.table_name \o "\"" >>
        ELSE <<>>)
    \o <<"", "">>

\* the concatenation of a sequence of sequences of lines
RECURSIVE Flatten(_)
Flatten(ss) == IF ss = <<>> THEN <<>> ELSE Head(ss) \o Flatten(Tail(ss))

SQLALCHEMY_HEADER ==
    << "\"\"\"SQLAlchemy models generated from .NET Entity Framework models\"\"\"",
       "",
       "from datetime import datetime",
       "from decimal import Decimal",
       "from sqlalchemy import Column, Integer, String, Boolean, DateTime, Numeric, Float, ForeignKey, Text, LargeBinary",
       "from sqlalchemy.ext.declarative import declarative_base",
       "from sqlalchemy.orm import relationship",
       "",
       "Base = declarative_base()",
       "",
       "" >>

DJANGO_HEADER ==
    << "\"\"\"Django models generated from .NET Entity Framework models\"\"\"",
       "",
       "from django.db import models",
       "from datetime import datetime",
       "from decimal import Decimal",
       "",
       "" >>

\* A TLA+ string cannot hold a backquote: BQ stands for that character in
\* the Markdown the guide is written in, FENCE for a code fence.
BQ    == "'"
FENCE == BQ \o BQ \o BQ

GUIDE_HEAD ==
    << "# Database Migration Guide",
       "",
       "This guide explains how to apply the generated models to your database.",
       "" >>

GUIDE_SQLALCHEMY ==
    << "## SQLAlchemy Migration with Alembic",
       "",
       "### 1. Install Alembic",
       FENCE \o "bash",
       "pip install alembic",
       FENCE,
       "",
       "### 2. Initialize Alembic",
       FENCE \o "bash",
       "alembic init alembic",
       FENCE,
       "",
       "### 3. Configure Alembic",
       ("Edit " \o BQ \o "alembic/env.py" \o BQ \o " and import your models:"),
       FENCE \o "python",
       "from models import Base",
       "target_metadata = Base.metadata",
       FENCE,
       "",
       "### 4. Generate Migration",
       FENCE \o "bash",
       "alembic revision --autogenerate -m \"Initial migration from .NET\"",
       FENCE,
       "",
       "### 5. Apply Migration",
       FENCE \o "bash",
       "alembic upgrade head",
       FENCE,
       "" >>

GUIDE_DJANGO ==
    << "## Django Migration",
       "",
       "### 1. Copy models.py to your Django app",
       FENCE \o "bash",
       "cp models.py your_app/models.py",
       FENCE,
       "",
       "### 2. Generate migrations",
       FENCE \o "bash",
       "python manage.py makemigrations",
       FENCE,
       "",
       "### 3. Apply migrations",
       FENCE \o "bash",
       "python manage.py migrate",
       FENCE,
       "" >>

\* the "Models Summary" entry of one model
GuideEntry(model) ==
    << "### " \o model.name,
       ("- Namespace: " \o BQ) \o model.namespace \o (BQ),
       "- Properties: " \o NatText(Len(model.properties)),
       "- Relationships: " \o NatText(Len(model.relationships)) >>
    \o (IF TruthyStr(model.table_name)
        THEN <<("- Table: " \o BQ) \o model.table_name \o (BQ)>> ELSE <<>>)
    \o <<"">>

-----------------------------------------------------------------------------
(* MigrationGenerator: the constructor and the steps of generate()         *)

\* the .cs files of the tree at or after position i that _scan_models reads
\* before a read fails: read_text raises on an unreadable file and the loop
\* (and generate()) ends there
RECURSIVE ScanFrom(_, _)
ScanFrom(tree, i) ==
    IF i > Len(tree) THEN [models |-> <<>>, raised |-> FALSE]
    ELSE IF ~EndsWith(tree[i].path, ".cs") THEN ScanFrom(tree, i + 1)
    ELSE IF ~tree[i].readable THEN [models |-> <<>>, raised |-> TRUE]
    ELSE LET rest == ScanFrom(tree, i + 1)
             found == IF _is_model_file(tree[i].content)
                      THEN _parse_model(tree[i].content) ELSE <<>>
         IN  [models |-> found \o rest.models, raised |-> rest.raised]

\* the lines _generate_sqlalchemy_models writes to models.py
_generate_sqlalchemy_models(ms) ==
    SQLALCHEMY_HEADER \o Flatten([i \in 1..Len(ms) |-> _write_sqlalchemy_model(ms[i])])

\* the lines _generate_django_models writes to models.py
_generate_django_models(ms) ==
    DJANGO_HEADER \o Flatten([i \in 1..Len(ms) |-> _write_django_model(ms[i])])

\* the lines _generate_migration_script writes to MIGRATION_GUIDE.md
_generate_migration_script(ms, framework) ==
    GUIDE_HEAD
    \o (IF framework = "sqlalchemy" THEN GUIDE_SQLALCHEMY ELSE GUIDE_DJANGO)
    \o << "## Models Summary", "",
          "Total models migrated: " \o NatText(Len(ms)), "" >>
    \o Flatten([i \in 1..Len(ms) |-> GuideEntry(ms[i])])

\* MigrationGenerator.__init__
Construct ==
    /\ gen_pc = "new"
    /\ target_framework' = Lower(framework_arg)
    /\ models' = <<>>
    /\ gen_pc' = IF Lower(framework_arg) \in {"sqlalchemy", "django"}
                 THEN "constructed" ELSE "raised"
    /\ UNCHANGED <<gen_tree, framework_arg, models_py, migration_guide, exceptGen>>

\* generate(): self._scan_models()
ScanModels ==
    /\ gen_pc = "constructed"
    /\ models' = models \o ScanFrom(gen_tree, 1).models
    /\ gen_pc' = IF ScanFrom(gen_tree, 1).raised THEN "raised" ELSE "scanned"
    /\ UNCHANGED <<gen_tree, framework_arg, target_framework, models_py,
                   migration_guide, exceptGen>>

\* generate(): self._generate_sqlalchemy_models()
GenerateSqlalchemyModels ==
    /\ gen_pc = "scanned"
    /\ target_framework = "sqlalchemy"
    /\ models_py' = _generate_sqlalchemy_models(models)
    /\ gen_pc' = "written"
    /\ UNCHANGED <<gen_tree, framework_arg, target_framework, models,
                   migration_guide, exceptGen>>

\* generate(): self._generate_django_models()
GenerateDjangoModels ==
    /\ gen_pc = "scanned"
    /\ target_framework # "sqlalchemy"
    /\ models_py' = _generate_django_models(models)
    /\ gen_pc' = "written"
    /\ UNCHANGED <<gen_tree, framework_arg, target_framework, models,
                   migration_guide, exceptGen>>

\* the guide written as soon as the scan is over
GenerateMigrationScript_after_scan ==
    /\ gen_pc \in {"scanned", "written"}
    /\ migration_guide' = _generate_migration_script(models, target_framework)
    /\ gen_pc' = "done"
    /\ UNCHANGED <<gen_tree, framework_arg, target_framework, models, models_py,
                   exceptGen>>

\* generate(): self._generate_migration_script()
GenerateMigrationScript ==
    /\ gen_pc = "written"
    /\ migration_guide' = _generate_migration_script(models, target_framework)
    /\ gen_pc' = "done"
    /\ UNCHANGED <<gen_tree, framework_arg, target_framework, models, models_py,
                   exceptGen>>

NextGen ==
    \/ Construct
    \/ ScanModels
    \/ GenerateSqlalchemyModels
    \/ GenerateDjangoModels
    \/ GenerateMigrationScript

-----------------------------------------------------------------------------
(* DotNetAssessor: files, _read_file and the directory walk                *)

\* the 1 MiB ceiling: files larger than this are skipped
MAX_FILE_SIZE_BYTES == 1 * 1024 * 1024

\* no error at a step of a file operation
NoError == "none"

\* the exception classes a file operation raises that derive from OSError
OSErrors == {"OSError", "PermissionError", "FileNotFoundError", "IsADirectoryError"}

\* "except PermissionError" alone
Caught_permission_only(e) == e = "PermissionError"

\* "except (OSError, PermissionError)"
Caught(e) == e \in OSErrors \/ e = "PermissionError"

\* a byte sequence that is not valid UTF-8, as one character of a word
BadByte == "^"

\* decoding with errors='ignore': undecodable bytes are dropped; a word made
\* of such bytes only leaves nothing between its two separators
Decode(content) ==
    SelectSeq([i \in 1..Len(content) |-> RemoveChar(content[i], BadByte)],
              LAMBDA w : w # "")

\* str(file_path): the components joined by the separator
PathText(path) == Join(path, "/")

\* one line printed by _read_file
Diagnostic(kind, file) == [kind |-> kind, path |-> PathText(file.path)]

\* the outcome of _read_file when the operation at hand raises e
ReadFailure(file, e) ==
    IF Caught(e)
    THEN [text |-> <<>>, printed |-> <<Diagnostic("Skipping unreadable file", file)>>,
          raised |-> NoError]
    ELSE [text |-> <<>>, printed |-> <<>>, raised |-> e]

\* _read_file: the text returned (<<>> is the empty string), the lines
\* printed and the exception that leaves the call (NoError when it returns)
_read_file(file) ==
    IF file.stat_error # NoError THEN ReadFailure(file, file.stat_error)
    ELSE IF file.size > MAX_FILE_SIZE_BYTES
    THEN [text |-> <<>>, printed |-> <<Diagnostic("Skipping large file", file)>>,
          raised |-> NoError]
    ELSE IF file.open_error # NoError THEN ReadFailure(file, file.open_error)
    ELSE IF file.read_error # NoError THEN ReadFailure(file, file.read_error)
    ELSE [text |-> Decode(file.content), printed |-> <<>>, raised |-> NoError]

\* the last component of a path and the directory that holds the file
FileName(path) == path[Len(path)]
ParentName(path) == IF Len(path) > 1 THEN path[Len(path) - 1] ELSE ""

\* Path.stem: the name without its last suffix
Stem(file_name) ==
    LET dots == {i \in 2..Len(file_name) : Ch(file_name, i) = "."}
    IN  IF dots = {} \/ Ch(file_name, Len(file_name)) = "." THEN file_name
        ELSE SubSeq(file_name, 1, (CHOOSE d \in dots : \A e \in dots : e <= d) - 1)

\* project_path.glob("**/<dir>/**/*<ext>"): the files below a directory
\* named dir, at any depth, whose name ends with ext, in the order of the
\* tree; that is the order of glob for a tree that has a directory of that
\* name at one place only, as the trees of InitAssess have
GlobUnder(tree, dir, ext) ==
    SelectSeq(tree, LAMBDA f :
        /\ EndsWith(FileName(f.path), ext)
        /\ \E i \in 1..(Len(f.path) - 1) : f.path[i] = dir)

\* project_path.glob("**/*<ext>")
GlobAll(tree, ext) == SelectSeq(tree, LAMBDA f : EndsWith(FileName(f.path), ext))

\* the outcomes of _read_file over a list of files, one after the other
ReadEach(files) == [i \in 1..Len(files) |-> _read_file(files[i])]

\* the index of the first read that raises, 0 when none does
FirstRaise(reads) ==
    LET bad == {i \in 1..Len(reads) : reads[i].raised # NoError}
    IN  IF bad = {} THEN 0 ELSE SetMin(bad)

\* the lines printed by the first n reads
PrintedBy(reads, n) == Flatten([i \in 1..n |-> reads[i].printed])

\* 'key in content' for a key without white space
Contains(content, key) == \E i \in 1..Len(content) : IsSubstring(key, content[i])

-----------------------------------------------------------------------------
(* DotNetAssessor: extraction from the text of a file                      *)

\* the longest prefix of a run that ends with suffix and holds at least one
\* character before it: group 1 of (\w+<suffix>) on the run, "" without match
LongestWithSuffix(run, suffix) ==
    LET ends == {k \in (Len(suffix) + 1)..Len(run) :
                    MatchesAt(suffix, run, k - Len(suffix) + 1)}
    IN  IF ends = {} THEN ""
        ELSE SubSeq(run, 1, CHOOSE k \in ends : \A e \in ends : e <= k)

\* the words at which class\s+(\w+<suffix>) matches
SuffixedClassesAt(content, suffix) ==
    {i \in 1..Len(content) :
        /\ content[i] = "class"
        /\ LongestWithSuffix(PrefixOf(Tok(content, i + 1), WordChars), suffix) # ""}

\* group 1 of class\s+(\w+<suffix>) for the match at word i
SuffixedClassName(content, i, suffix) ==
    LongestWithSuffix(PrefixOf(Tok(content, i + 1), WordChars), suffix)

\* the elements of a set of word indices in increasing order
RECURSIVE Ascending(_)
Ascending(S) == IF S = {} THEN <<>> ELSE <<SetMin(S)>> \o Ascending(S \ {SetMin(S)})

\* group 1 of (?:Task<)?(\w+)>? over a whole word, None when the word does
\* not match
ReturnTypeOf(w) ==
    LET bare(u) == LET r == PrefixOf(u, WordChars)
                   IN  IF r # "" /\ (u = r \/ u = r \o ">") THEN r ELSE None
    IN  IF MatchesAt("Task<", w, 1) /\ bare(From(w, 6)) # None THEN bare(From(w, 6))
        ELSE bare(w)

\* (\w+)\s*\( with the name starting word i: the name, or None
MethodNameAt(content, i) ==
    LET w == Tok(content, i)
        r == PrefixOf(w, WordChars)
    IN  IF r # "" /\ (Ch(w, Len(r) + 1) = "("
                      \/ (w = r /\ Ch(Tok(content, i + 1), 1) = "("))
        THEN r ELSE None

\* method_pattern with "public" at word p and k words taken by "async"
MethodWith(content, p, k) ==
    /\ Tok(content, p) = "public"
    /\ k = 1 => Tok(content, p + 1) = "async"
    /\ ReturnTypeOf(Tok(content, p + 1 + k)) # None
    /\ MethodNameAt(content, p + 2 + k) # None

\* the number of words "async" takes in the match at word p: the optional
\* group is tried first
AsyncTaken(content, p) == IF MethodWith(content, p, 1) THEN 1 ELSE 0

MethodAt(content, p) == MethodWith(content, p, 1) \/ MethodWith(content, p, 0)

\* the rest of the text from character c of word j on holds the name
NameAfter(content, j, c, method_name) ==
    \/ IsSubstring(method_name, From(Tok(content, j), c))
    \/ \E k \in (j + 1)..Len(content) : IsSubstring(method_name, content[k])

\* re.search(rf'\[Http<Verb>.*?\]\s*public.*?{method_name}', content, re.DOTALL)
\* with marker the text "[Http<Verb>"
VerbMarked(content, marker, method_name) ==
    \E i \in 1..Len(content) : \E a \in 1..Len(content[i]) :
        /\ MatchesAt(marker, content[i], a)
        /\ \E j \in i..Len(content) : \E c \in 1..Len(content[j]) :
              /\ Ch(content[j], c) = "]"
              /\ j = i => c >= a + Len(marker)
              /\ \/ /\ MatchesAt("public", content[j], c + 1)
                    /\ NameAfter(content, j, c + 7, method_name)
                 \/ /\ c = Len(content[j])
                    /\ MatchesAt("public", Tok(content, j + 1), 1)
                    /\ NameAfter(content, j + 1, 7, method_name)

\* the default taken to be POST
HttpMethodOf_default_post(content, method_name) ==
    IF VerbMarked(content, "[HttpPost", method_name) THEN "POST"
    ELSE IF VerbMarked(content, "[HttpPut", method_name) THEN "PUT"
    ELSE IF VerbMarked(content, "[HttpDelete", method_name) THEN "DELETE"
    ELSE "POST"

\* the marker patterns tried in the order DELETE, PUT, POST
HttpMethodOf_delete_first(content, method_name) ==
    IF VerbMarked(content, "[HttpDelete", method_name) THEN "DELETE"
    ELSE IF VerbMarked(content, "[HttpPut", method_name) THEN "PUT"
    ELSE IF VerbMarked(content, "[HttpPost", method_name) THEN "POST"
    ELSE "GET"

\* the verb given to an action: the marker patterns in the order tried
HttpMethodOf(content, method_name) ==
    IF VerbMarked(content, "[HttpPost", method_name) THEN "POST"
    ELSE IF VerbMarked(content, "[HttpPut", method_name) THEN "PUT"
    ELSE IF VerbMarked(content, "[HttpDelete", method_name) THEN "DELETE"
    ELSE "GET"

\* the loop of _extract_routes over re.finditer(method_pattern, content),
\* from word i on
RECURSIVE RoutesFrom(_, _, _)
RoutesFrom(content, controller_name, i) ==
    IF i > Len(content) THEN <<>>
    ELSE IF MethodAt(content, i)
    THEN LET k == AsyncTaken(content, i)
             method_name == MethodNameAt(content, i + 2 + k)
         IN  <<[controller  |-> controller_name,
                action      |-> method_name,
                http_method |-> HttpMethodOf(content, method_name),
                return_type |-> ReturnTypeOf(Tok(content, i + 1 + k))]>>
             \o RoutesFrom(content, controller_name, i + 3 + k)
    ELSE RoutesFrom(content, controller_name, i + 1)

_extract_routes(content, controller_name) == RoutesFrom(content, controller_name, 1)

\* re.finditer(r'public\s+class\s+(\w+)', content): the class names in order
RECURSIVE ClassNamesFrom(_, _)
ClassNamesFrom(content, i) ==
    IF i > Len(content) THEN <<>>
    ELSE IF /\ content[i] = "public" /\ Tok(content, i + 1) = "class"
            /\ PrefixOf(Tok(content, i + 2), WordChars) # ""
    THEN <<PrefixOf(Tok(content, i + 2), WordChars)>> \o ClassNamesFrom(content, i + 3)
    ELSE ClassNamesFrom(content, i + 1)

\* \w+(?:<\w+>)? over a whole word
IsPropertyType(w) ==
    LET r == PrefixOf(w, WordChars)
        inner == SubSeq(w, Len(r) + 2, Len(w) - 1)
    IN  /\ r # ""
        /\ \/ w = r
           \/ /\ Ch(w, Len(r) + 1) = "<" /\ Ch(w, Len(w)) = ">"
              /\ IsWord(inner)

\* (\w+)\s*{ with the name starting word i: the name, or None
BracedNameAt(content, i) ==
    LET w == Tok(content, i)
        r == PrefixOf(w, WordChars)
    IN  IF r # "" /\ (Ch(w, Len(r) + 1) = "{"
                      \/ (w = r /\ Ch(Tok(content, i + 1), 1) = "{"))
        THEN r ELSE None

\* re.findall(r'public\s+(\w+(?:<\w+>)?)\s+(\w+)\s*{', content) from word i on
RECURSIVE PropertyPairsFrom(_, _)
PropertyPairsFrom(content, i) ==
    IF i > Len(content) THEN <<>>
    ELSE IF /\ content[i] = "public"
            /\ IsPropertyType(Tok(content, i + 1))
            /\ BracedNameAt(content, i + 2) # None
    THEN <<[type |-> Tok(content, i + 1), name |-> BracedNameAt(content, i + 2)]>>
         \o PropertyPairsFrom(content, i + 3)
    ELSE PropertyPairsFrom(content, i + 1)

\* the entries _scan_models appends for one file that was read: one per class
\* of the file, each with the properties found in the whole file
ModelEntries(file, content) ==
    LET class_names == ClassNamesFrom(content, 1)
    IN  [k \in 1..Len(class_names) |->
            [name       |-> class_names[k],
             file       |-> PathText(file.path),
             properties |-> PropertyPairsFrom(content, 1)]]

\* re.findall(r'interface\s+(I\w+)', content)
InterfacesIn(content) ==
    LET at == {i \in 1..Len(content) :
                  /\ content[i] = "interface"
                  /\ Ch(Tok(content, i + 1), 1) = "I"
                  /\ Len(PrefixOf(Tok(content, i + 1), WordChars)) >= 2}
    IN  [k \in 1..Cardinality(at) |->
            PrefixOf(Tok(content, Ascending(at)[k] + 1), WordChars)]

\* the entry _scan_services appends for one file that was read, if any
ServiceEntries(file, content) ==
    LET classes == SuffixedClassesAt(content, "Service")
    IN  IF classes = {} THEN <<>>
        ELSE <<[name       |-> SuffixedClassName(content, SetMin(classes), "Service"),
                interfaces |-> InterfacesIn(content),
                file       |-> PathText(file.path)]>>

\* \s*DbContext from character c of word j on
DbContextFollows(content, j, c) ==
    \/ MatchesAt("DbContext", Tok(content, j), c)
    \/ c = Len(Tok(content, j)) + 1 /\ MatchesAt("DbContext", Tok(content, j + 1), 1)

\* class\s+(\w+)\s*:\s*DbContext matches with "class" at word i
ContextClassAt(content, i) ==
    LET w == Tok(content, i + 1)
        r == PrefixOf(w, WordChars)
    IN  /\ content[i] = "class"
        /\ r # ""
        /\ \/ Ch(w, Len(r) + 1) = ":" /\ DbContextFollows(content, i + 1, Len(r) + 2)
           \/ /\ w = r /\ Ch(Tok(content, i + 2), 1) = ":"
              /\ DbContextFollows(content, i + 2, 2)

\* re.findall(r'DbSet<(\w+)>\s+(\w+)', content) from word i on; the first
\* used characters of word i belong to the match before
RECURSIVE DbSetsFrom(_, _, _)
DbSetsFrom(content, i, used) ==
    IF i > Len(content) THEN <<>>
    ELSE LET w == content[i]
             at == {a \in (used + 1)..Len(w) :
                       /\ MatchesAt("DbSet<", w, a)
                       /\ Ch(w, Len(w)) = ">"
                       /\ IsWord(SubSeq(w, a + 6, Len(w) - 1))}
             property == PrefixOf(Tok(content, i + 1), WordChars)
         IN  IF at # {} /\ property # ""
             THEN <<[type     |-> SubSeq(w, SetMin(at) + 6, Len(w) - 1),
                     property |-> property]>>
                  \o DbSetsFrom(content, i + 1, Len(property))
             ELSE DbSetsFrom(content, i + 1, 0)

\* the entry _scan_database_contexts appends for one file that was read, if any
ContextEntries(file, content) ==
    LET at == {i \in 1..Len(content) : ContextClassAt(content, i)}
    IN  IF ~Contains(content, "DbContext") \/ at = {} THEN <<>>
        ELSE <<[name     |-> PrefixOf(Tok(content, SetMin(at) + 1), WordChars),
                file     |-> PathText(file.path),
                entities |-> DbSetsFrom(content, 1, 0)]>>

\* the value of <attribute>="([^"]+)" at the head of a word, or None
QuotedValue(w, attribute) ==
    LET open == Len(attribute) + 2
        quotes == {c \in (open + 1)..Len(w) : Ch(w, c) = "\""}
    IN  IF MatchesAt(attribute \o "=\"", w, 1) /\ quotes # {} /\ SetMin(quotes) > open + 1
        THEN SubSeq(w, open + 1, SetMin(quotes) - 1)
        ELSE None

\* equivalents, in the order of the table
EQUIVALENTS ==
    << <<"Newtonsoft.Json", "json (built-in) or pydantic">>,
       <<"EntityFrameworkCore", "SQLAlchemy or Django ORM">>,
       <<"Serilog", "loguru or structlog">>,
       <<"AutoMapper", "pydantic or dataclasses">>,
       <<"FluentValidation", "pydantic validators">>,
       <<"MediatR", "python-mediator">>,
       <<"Swashbuckle", "FastAPI (automatic) or flask-swagger">>,
       <<"IdentityServer4", "python-jose or authlib">>,
       <<"Hangfire", "celery or rq">>,
       <<"SignalR", "python-socketio or channels">>,
       <<"Dapper", "psycopg2 or pymysql">> >>

\* the last matching entry of the table taken
suggest_python_equivalent_last_match(package_name) ==
    LET hits == {i \in DOMAIN EQUIVALENTS :
                    IsSubstring(Lower(EQUIVALENTS[i][1]), Lower(package_name))}
    IN  IF hits = {} THEN "Research required"
        ELSE EQUIVALENTS[CHOOSE i \in hits : \A k \in hits : k <= i][2]

\* the loop over equivalents.items(), which keeps the order of the literal
_suggest_python_equivalent(package_name) ==
    LET hits == {i \in DOMAIN EQUIVALENTS :
                    IsSubstring(Lower(EQUIVALENTS[i][1]), Lower(package_name))}
    IN  IF hits = {} THEN "Research required" ELSE EQUIVALENTS[SetMin(hits)][2]

\* re.findall(r'<PackageReference\s+Include="([^"]+)"\s+Version="([^"]+)"', content)
\* turned into the entries _scan_dependencies appends
PackageEntries(content) ==
    LET at == {i \in 1..Len(content) :
                  /\ EndsWith(content[i], "<PackageReference")
                  /\ QuotedValue(Tok(content, i + 1), "Include") # None
                  /\ Tok(content, i + 1) =
                        "Include=\"" \o QuotedValue(Tok(content, i + 1), "Include") \o "\""
                  /\ QuotedValue(Tok(content, i + 2), "Version") # None}
    IN  [k \in 1..Cardinality(at) |->
            LET i == Ascending(at)[k]
                package_name == QuotedValue(Tok(content, i + 1), "Include")
            IN  [name              |-> package_name,
                 version           |-> QuotedValue(Tok(content, i + 2), "Version"),
                 python_equivalent |-> _suggest_python_equivalent(package_name)]]

\* the if/elif chain of _detect_project_type on the text of the first csproj
ProjectTypeOf(content) ==
    IF Contains(content, "Microsoft.NET.Sdk.Web")
    THEN IF Contains(content, "Microsoft.AspNetCore.Mvc") THEN "ASP.NET MVC"
         ELSE IF Contains(content, "Microsoft.AspNetCore.Components") THEN "Blazor"
         ELSE "ASP.NET Web API"
    ELSE IF Contains(content, "Microsoft.NET.Sdk.WindowsDesktop")
    THEN "Windows Forms / WPF"
    ELSE "ASP.NET Core"

\* the if/elif chain of _detect_authentication on one text: the scheme, or
\* None when the loop goes on to the next file
SchemeIn(content) ==
    IF Contains(content, "AddIdentity") \/ Contains(content, "IdentityUser")
    THEN "ASP.NET Identity"
    ELSE IF Contains(content, "AddJwtBearer") THEN "JWT Bearer"
    ELSE IF Contains(content, "AddCookie") THEN "Cookie Authentication"
    ELSE None

-----------------------------------------------------------------------------
(* DotNetAssessor: __init__ and the steps of assess()                      *)

\* the "for file_path in files" loop shared by the scans: every file is
\* read, a file whose text is empty is passed over, Entries gives what the
\* body appends for the others; a read that raises ends the loop
Scan(files, Entries(_, _)) ==
    LET reads == ReadEach(files)
        stop == FirstRaise(reads)
        n == IF stop = 0 THEN Len(files) ELSE stop - 1
    IN  [entries |-> Flatten([i \in 1..n |->
                        IF reads[i].text = <<>> THEN <<>>
                        ELSE Entries(files[i], reads[i].text)]),
         printed |-> PrintedBy(reads, n),
         raised  |-> IF stop = 0 THEN NoError ELSE reads[stop].raised]

\* the entry _scan_controllers appends for one file that was read, if any
ControllerEntries(file, content) ==
    LET classes == SuffixedClassesAt(content, "Controller")
        controller_name == SuffixedClassName(content, SetMin(classes), "Controller")
        routes == _extract_routes(content, controller_name)
    IN  IF classes = {} THEN <<>>
        ELSE <<[name    |-> controller_name,
                file    |-> PathText(file.path),
                routes  |-> routes,
                actions |-> Len(routes)]>>

\* the entry _scan_views appends for one file
ViewEntry(file) ==
    [name       |-> Stem(FileName(file.path)),
     controller |-> ParentName(file.path),
     file       |-> PathText(file.path)]

\* the loop of _detect_authentication from file i on: it returns at the first
\* file whose text names a scheme
RECURSIVE AuthenticationFrom(_, _)
AuthenticationFrom(files, i) ==
    IF i > Len(files)
    THEN [authentication |-> "Not detected", printed |-> <<>>, raised |-> NoError]
    ELSE LET r == _read_file(files[i])
         IN  IF r.raised # NoError
             THEN [authentication |-> None, printed |-> <<>>, raised |-> r.raised]
             ELSE IF r.text # <<>> /\ SchemeIn(r.text) # None
             THEN [authentication |-> SchemeIn(r.text), printed |-> r.printed,
                   raised |-> NoError]
             ELSE LET rest == AuthenticationFrom(files, i + 1)
                  IN  [rest EXCEPT !.printed = r.printed \o @]

\* the comparison of the controller count taken to be >=
Recommendations_from_20(inv) ==
    (IF Len(inv.controllers) >= 20
     THEN <<[category |-> "Backend Framework",
             recommendation |-> "Django REST Framework",
             reason |-> "Large API with many endpoints - Django's batteries-included approach will speed development"]>>
     ELSE <<[category |-> "Backend Framework",
             recommendation |-> "FastAPI",
             reason |-> "Modern async framework with automatic API docs and high performance"]>>)
    \o (IF inv.database_contexts # <<>>
        THEN <<[category |-> "ORM",
                recommendation |-> "SQLAlchemy",
                reason |-> "Detected Entity Framework usage - SQLAlchemy provides similar ORM capabilities"]>>
        ELSE <<>>)
    \o (IF Len(inv.views) > 15
        THEN <<[category |-> "State Management",
                recommendation |-> "Redux Toolkit or Zustand",
                reason |-> "Large application with many views - centralized state management recommended"]>>
        ELSE <<[category |-> "State Management",
                recommendation |-> "React Context + useReducer or Zustand",
                reason |-> "Moderate sized application - lightweight state management sufficient"]>>)
    \o (IF inv.authentication \in {"ASP.NET Identity", "JWT Bearer"}
        THEN <<[category |-> "Authentication",
                recommendation |-> "JWT with FastAPI or Django JWT",
                reason |-> "Migrate " \o inv.authentication \o " to token-based auth"]>>
        ELSE <<>>)

\* the list _generate_recommendations builds from the inventory
Recommendations(inv) ==
    (IF Len(inv.controllers) > 20
     THEN <<[category |-> "Backend Framework",
             recommendation |-> "Django REST Framework",
             reason |-> "Large API with many endpoints - Django's batteries-included approach will speed development"]>>
     ELSE <<[category |-> "Backend Framework",
             recommendation |-> "FastAPI",
             reason |-> "Modern async framework with automatic API docs and high performance"]>>)
    \o (IF inv.database_contexts # <<>>
        THEN <<[category |-> "ORM",
                recommendation |-> "SQLAlchemy",
                reason |-> "Detected Entity Framework usage - SQLAlchemy provides similar ORM capabilities"]>>
        ELSE <<>>)
    \o (IF Len(inv.views) > 15
        THEN <<[category |-> "State Management",
                recommendation |-> "Redux Toolkit or Zustand",
                reason |-> "Large application with many views - centralized state management recommended"]>>
        ELSE <<[category |-> "State Management",
                recommendation |-> "React Context + useReducer or Zustand",
                reason |-> "Moderate sized application - lightweight state management sufficient"]>>)
    \o (IF inv.authentication \in {"ASP.NET Identity", "JWT Bearer"}
        THEN <<[category |-> "Authentication",
                recommendation |-> "JWT with FastAPI or Django JWT",
                reason |-> "Migrate " \o inv.authentication \o " to token-based auth"]>>
        ELSE <<>>)

\* the pc after a step of assess(): the step's name, or "raised"
After(step, raised) == IF raised = NoError THEN step ELSE "raised"

\* DotNetAssessor.__init__
AssessorInit ==
    /\ assess_pc = "new"
    /\ inventory' = [project_type |-> None, controllers |-> <<>>, models |-> <<>>,
                     views |-> <<>>, services |-> <<>>, dependencies |-> <<>>,
                     routes |-> <<>>, database_contexts |-> <<>>,
                     authentication |-> None, third_party_packages |-> <<>>,
                     recommendations |-> <<>>]
    /\ assess_pc' = "constructed"
    /\ UNCHANGED <<project_tree, diagnostics, exceptAssess>>

\* assess(): self._detect_project_type()
DetectProjectType ==
    /\ assess_pc = "constructed"
    /\ LET csproj_files == GlobAll(project_tree, ".csproj")
           r == _read_file(csproj_files[1])
       IN  IF csproj_files = <<>>
           THEN /\ inventory' = [inventory EXCEPT !.project_type = "Unknown"]
                /\ diagnostics' = diagnostics
                /\ assess_pc' = "_detect_project_type"
           ELSE /\ inventory' = IF r.raised # NoError THEN inventory
                                ELSE [inventory EXCEPT !.project_type = ProjectTypeOf(r.text)]
                /\ diagnostics' = diagnostics \o r.printed
                /\ assess_pc' = After("_detect_project_type", r.raised)
    /\ UNCHANGED <<project_tree, exceptAssess>>

\* _scan_controllers with the routes of this call put in place of the list
ScanControllers_routes_replaced ==
    /\ assess_pc = "_detect_project_type"
    /\ LET scan == Scan(GlobUnder(project_tree, "Controllers", ".cs"), ControllerEntries)
       IN  /\ inventory' =
                [inventory EXCEPT
                    !.controllers = @ \o scan.entries,
                    !.routes = Flatten([i \in 1..Len(scan.entries) |->
                                           scan.entries[i].routes])]
           /\ diagnostics' = diagnostics \o scan.printed
           /\ assess_pc' = After("_scan_controllers", scan.raised)
    /\ UNCHANGED <<project_tree, exceptAssess>>

\* assess(): self._scan_controllers()
ScanControllers ==
    /\ assess_pc = "_detect_project_type"
    /\ LET scan == Scan(GlobUnder(project_tree, "Controllers", ".cs"), ControllerEntries)
       IN  /\ inventory' =
                [inventory EXCEPT
                    !.controllers = @ \o scan.entries,
                    !.routes = @ \o Flatten([i \in 1..Len(scan.entries) |->
                                                scan.entries[i].routes])]
           /\ diagnostics' = diagnostics \o scan.printed
           /\ assess_pc' = After("_scan_controllers", scan.raised)
    /\ UNCHANGED <<project_tree, exceptAssess>>

\* assess(): self._scan_models()
AssessorScanModels ==
    /\ assess_pc = "_scan_controllers"
    /\ LET model_files == GlobUnder(project_tree, "Models", ".cs")
                          \o GlobUnder(project_tree, "Entities", ".cs")
                          \o GlobUnder(project_tree, "Domain", ".cs")
           scan == Scan(model_files, ModelEntries)
       IN  /\ inventory' = [inventory EXCEPT !.models = @ \o scan.entries]
           /\ diagnostics' = diagnostics \o scan.printed
           /\ assess_pc' = After("_scan_models", scan.raised)
    /\ UNCHANGED <<project_tree, exceptAssess>>

\* assess(): self._scan_views(); no file is read
ScanViews ==
    /\ assess_pc = "_scan_models"
    /\ LET view_files == GlobUnder(project_tree, "Views", ".cshtml")
       IN  inventory' = [inventory EXCEPT
                !.views = @ \o [i \in 1..Len(view_files) |-> ViewEntry(view_files[i])]]
    /\ assess_pc' = "_scan_views"
    /\ UNCHANGED <<project_tree, diagnostics, exceptAssess>>

\* assess(): self._scan_services()
ScanServices ==
    /\ assess_pc = "_scan_views"
    /\ LET scan == Scan(GlobUnder(project_tree, "Services", ".cs"), ServiceEntries)
       IN  /\ inventory' = [inventory EXCEPT !.services = @ \o scan.entries]
           /\ diagnostics' = diagnostics \o scan.printed
           /\ assess_pc' = After("_scan_services", scan.raised)
    /\ UNCHANGED <<project_tree, exceptAssess>>

\* assess(): self._scan_database_contexts()
ScanDatabaseContexts ==
    /\ assess_pc = "_scan_services"
    /\ LET scan == Scan(GlobAll(project_tree, ".cs"), ContextEntries)
       IN  /\ inventory' = [inventory EXCEPT !.database_contexts = @ \o scan.entries]
           /\ diagnostics' = diagnostics \o scan.printed
           /\ assess_pc' = After("_scan_database_contexts", scan.raised)
    /\ UNCHANGED <<project_tree, exceptAssess>>

\* assess(): self._scan_dependencies()
ScanDependencies ==
    /\ assess_pc = "_scan_database_contexts"
    /\ LET scan == Scan(GlobAll(project_tree, ".csproj"),
                        LAMBDA file, content : PackageEntries(content))
       IN  /\ inventory' = [inventory EXCEPT !.third_party_packages = @ \o scan.entries]
           /\ diagnostics' = diagnostics \o scan.printed
           /\ assess_pc' = After("_scan_dependencies", scan.raised)
    /\ UNCHANGED <<project_tree, exceptAssess>>

\* assess(): self._detect_authentication()
DetectAuthentication ==
    /\ assess_pc = "_scan_dependencies"
    /\ LET found == AuthenticationFrom(GlobAll(project_tree, ".cs"), 1)
       IN  /\ inventory' = IF found.raised # NoError THEN inventory
                           ELSE [inventory EXCEPT !.authentication = found.authentication]
           /\ diagnostics' = diagnostics \o found.printed
           /\ assess_pc' = After("_detect_authentication", found.raised)
    /\ UNCHANGED <<project_tree, exceptAssess>>

\* assess(): self._generate_recommendations(); assess() returns
GenerateRecommendations ==
    /\ assess_pc = "_detect_authentication"
    /\ inventory' = [inventory EXCEPT !.recommendations = Recommendations(inventory)]
    /\ assess_pc' = "assessed"
    /\ UNCHANGED <<project_tree, diagnostics, exceptAssess>>

NextAssess ==
    \/ AssessorInit
    \/ DetectProjectType
    \/ ScanControllers
    \/ AssessorScanModels
    \/ ScanViews
    \/ ScanServices
    \/ ScanDatabaseContexts
    \/ ScanDependencies
    \/ DetectAuthentication
    \/ GenerateRecommendations

\* DotNetAssessor.generate_report: the report returned
generate_report(inv) ==
    [summary |-> [project_type |-> inv.project_type,
                  total_controllers |-> Len(inv.controllers),
                  total_routes |-> Len(inv.routes),
                  total_models |-> Len(inv.models),
                  total_views |-> Len(inv.views),
                  total_services |-> Len(inv.services),
                  authentication |-> inv.authentication],
     details |-> inv]

\* the calls of assess() and of generate() made on one object
MaxCalls == 3

\* assess() is called again on the same DotNetAssessor, once the call
\* before it has returned or raised
AssessAgain ==
    /\ assess_pc \in {"assessed", "raised"}
    /\ assess_calls + 1 < MaxCalls
    /\ assess_calls' = assess_calls + 1
    /\ assess_pc' = "constructed"
    /\ UNCHANGED <<project_tree, inventory, diagnostics, gen_calls, mapVars, snakeVars,
                   genVars, readVars, razorVars, backendVars>>

NextReassess == NextAssess \/ AssessAgain

\* generate() is called again on the same MigrationGenerator, once the call
\* before it has returned or raised
GenerateAgain ==
    /\ gen_pc \in {"done", "raised"}
    /\ target_framework \in {"sqlalchemy", "django"}
    /\ gen_calls + 1 < MaxCalls
    /\ gen_calls' = gen_calls + 1
    /\ gen_pc' = "constructed"
    /\ UNCHANGED <<gen_tree, framework_arg, target_framework, models, models_py,
                   migration_guide, assess_calls, mapVars, snakeVars, assessVars,
                   readVars, razorVars, backendVars>>

NextRegenerate == NextGen \/ GenerateAgain

\* one call of _read_file
ReadFile ==
    /\ read_pc = "call"
    /\ read_result' = _read_file(file_path)
    /\ read_pc' = "returned"
    /\ UNCHANGED <<file_path, exceptRead>>

NextReadFile == ReadFile

-----------------------------------------------------------------------------
(* Regular expressions of the Razor converter: patterns as data and the     *)
(* match a backtracking matcher finds, its alternatives tried in re's order *)

SpaceSet == {" ", "\n", "\t", "\r"}

\* a literal text
Lit(s) == [t |-> "lit", s |-> s]
\* a character class under a quantifier: the characters of c (those outside
\* c when neg), at least min of them, more than one when many, fewest first
\* when lazy
Cls(c, neg, min, many, lazy) ==
    [t |-> "cls", c |-> c, neg |-> neg, min |-> min, many |-> many, lazy |-> lazy]
\* the start and the end of capturing group g
Open(g) == [t |-> "open", g |-> g]
Close(g) == [t |-> "close", g |-> g]
\* (?:p)?
Opt(p) == [t |-> "opt", p |-> p]
\* (?:p1|p2|...)
Alt(ps) == [t |-> "alt", ps |-> ps]
\* (?![c])
NotAhead(c) == [t |-> "notahead", c |-> c]
\* \b
WordBoundary == [t |-> "wordb"]

\* \s+  \s*  \w+  [\w\.]+  [^c]+  [^c]*  .+?
Spaces1 == Cls(SpaceSet, FALSE, 1, TRUE, FALSE)
Spaces0 == Cls(SpaceSet, FALSE, 0, TRUE, FALSE)
Word1 == Cls(WordChars, FALSE, 1, TRUE, FALSE)
Dotted1 == Cls(DottedChars, FALSE, 1, TRUE, FALSE)
Not1(c) == Cls(c, TRUE, 1, TRUE, FALSE)
Not0(c) == Cls(c, TRUE, 0, TRUE, FALSE)
AnyLazy1 == Cls({}, TRUE, 1, TRUE, TRUE)
AnyLazy0 == Cls({}, TRUE, 0, TRUE, TRUE)
\* (\w+) and ([^c]+), ([^c]*) as group g
WordGroup(g) == <<Open(g), Word1, Close(g)>>
NotGroup1(g, c) == <<Open(g), Not1(c), Close(g)>>
NotGroup0(g, c) == <<Open(g), Not0(c), Close(g)>>

\* the most capturing groups a pattern of the converter has
MaxGroups == 3

NoMatch == [ok |-> FALSE, end |-> 0, groups |-> <<>>]

\* character i of the text is in the class of element e
InClass(e, text, i) == i >= 1 /\ i <= Len(text) /\ ((Ch(text, i) \in e.c) # e.neg)

\* the length of the run of characters of the class of e from i on
ClassRun(e, text, i) ==
    SetMin({k \in i..(Len(text) + 1) : ~InClass(e, text, k)}) - i

Least(a, b) == IF a <= b THEN a ELSE b

\* the last of the values of steps made one after the other
Last(values) == values[Len(values)]

\* the least member of a set of positions, 0 when it has none
FirstOf(positions) == IF positions = {} THEN 0 ELSE SetMin(positions)

PositionsOf(positions) == {positions[k] : k \in 1..Len(positions)}

\* the positions at which the text after element e may go on when e starts at
\* position j, in the order in which the backtracking matcher of re tries
\* them: a greedy class gives its longest run first, a lazy one its shortest,
\* an optional part is taken before it is left out, the alternatives of a
\* group are tried from left to right; Ends is the same for a whole pattern
RECURSIVE Next(_, _, _), Ends(_, _, _)
Next(e, text, j) ==
    CASE e.t = "lit" -> IF MatchesAt(e.s, text, j) THEN <<j + Len(e.s)>> ELSE <<>>
      [] e.t = "cls" ->
            LET run == ClassRun(e, text, j)
                longest == IF e.many \/ run = 0 THEN run ELSE 1
            IN  [k \in 1..(longest - e.min + 1) |->
                    IF e.lazy THEN j + e.min + k - 1 ELSE j + longest + 1 - k]
      [] e.t \in {"open", "close"} -> <<j>>
      [] e.t = "opt" -> Ends(e.p, text, j) \o <<j>>
      [] e.t = "alt" ->
            ConcatRange([k \in 1..Len(e.ps) |-> Ends(e.ps[k], text, j)], 1, Len(e.ps))
      [] e.t = "notahead" -> IF Ch(text, j) \in e.c THEN <<>> ELSE <<j>>
      [] e.t = "wordb" ->
            IF IsWordChar(Ch(text, j - 1)) # IsWordChar(Ch(text, j)) THEN <<j>> ELSE <<>>

Ends(p, text, j) ==
    IF p = <<>> THEN <<j>>
    ELSE LET first == Next(Head(p), text, j)
         IN  ConcatRange([k \in 1..Len(first) |-> Ends(Tail(p), text, first[k])],
                         1, Len(first))

\* the positions at which the text may go on after the elements lo..hi of
\* the pattern, the first of them starting at one of the positions from
RECURSIVE Reach(_, _, _, _, _)
Reach(p, lo, hi, text, from) ==
    CASE from = {} \/ lo > hi -> from
      [] lo = hi -> UNION {PositionsOf(Next(p[lo], text, j)) : j \in from}
      [] OTHER ->
            LET q == (hi - lo + 5) \div 5
                a == Reach(p, lo, lo + q - 1, text, from)
                b == Reach(p, lo + q, Least(lo + (2 * q) - 1, hi), text, a)
                c == Reach(p, lo + (2 * q), Least(lo + (3 * q) - 1, hi), text, b)
                d == Reach(p, lo + (3 * q), Least(lo + (4 * q) - 1, hi), text, c)
                e == Reach(p, lo + (4 * q), hi, text, d)
            IN  Last(<<a, b, c, d, e>>)

\* the elements of the pattern from the k-th on match from position j and
\* leave the text at a position of target
CanFinish(p, k, text, j, target) == Reach(p, k, Len(p), text, {j}) \cap target # {}

\* the first of the tries that the elements after the k-th can follow
FirstThat(tries, p, k, text, target) ==
    tries[SetMin({m \in 1..Len(tries) : CanFinish(p, k + 1, text, tries[m], target)})]

\* the position after element k on the match the backtracking matcher
\* finds: the first way of matching the element that the rest of the
\* pattern can follow
Step(p, k, text, j, target) == FirstThat(Next(p[k], text, j), p, k, text, target)

\* the positions after each of the elements lo..hi on that match
RECURSIVE Path(_, _, _, _, _, _)
Path(p, lo, hi, text, j, target) ==
    CASE lo > hi -> <<>>
      [] lo = hi -> <<Step(p, lo, text, j, target)>>
      [] OTHER ->
            LET q == (hi - lo + 5) \div 5
                a == Path(p, lo, lo + q - 1, text, j, target)
                b == a \o Path(p, lo + q, Least(lo + (2 * q) - 1, hi), text,
                               Last(a), target)
                c == b \o Path(p, lo + (2 * q), Least(lo + (3 * q) - 1, hi), text,
                               Last(b), target)
                d == c \o Path(p, lo + (3 * q), Least(lo + (4 * q) - 1, hi), text,
                               Last(c), target)
                e == d \o Path(p, lo + (4 * q), hi, text, Last(d), target)
            IN  Last(<<a, b, c, d, e>>)

\* where that match ends and what its groups hold; a group that took no part
\* holds the empty text, as in the replacement templates of re.sub
RECURSIVE MatchTo(_, _, _, _), GroupsOn(_, _, _, _)
MatchTo(p, text, i, target) == GroupsOn(p, text, i, Path(p, 1, Len(p), text, i, target))

\* the match that goes through the positions of path, path[k] the position
\* after element k
GroupsOn(p, text, i, path) ==
    LET before(k) == IF k = 1 THEN i ELSE path[k - 1]
        opens(g) == {k \in 1..Len(p) : p[k].t = "open" /\ p[k].g = g}
        closes(g) == {k \in 1..Len(p) : p[k].t = "close" /\ p[k].g = g}
        taken == {k \in 1..Len(p) :
                    /\ p[k].t = "opt"
                    /\ path[k] \in PositionsOf(Ends(p[k].p, text, before(k)))}
        inner(k, g) == MatchTo(p[k].p, text, before(k), {path[k]}).groups[g]
    IN  [ok |-> TRUE,
         end |-> path[Len(p)] - 1,
         groups |-> [g \in 1..MaxGroups |->
            IF opens(g) # {}
            THEN SubSeq(text, path[CHOOSE k \in opens(g) : TRUE],
                        path[CHOOSE k \in closes(g) : TRUE] - 1)
            ELSE IF \E k \in taken : inner(k, g) # ""
            THEN inner(CHOOSE k \in taken : inner(k, g) # "", g)
            ELSE ""]]

\* the match of pattern p at position i of the text: whether there is one,
\* where it ends and what the groups hold
MatchAt(p, text, i) ==
    IF CanFinish(p, 1, text, i, 1..(Len(text) + 1))
    THEN MatchTo(p, text, i, 1..(Len(text) + 1))
    ELSE NoMatch

\* re.finditer(p, text): the matches from position i on, each with its
\* first and last position and its groups
RECURSIVE FindAll(_, _, _), MatchesFrom(_, _, _), Cons(_, _, _, _)
FindAll(p, text, i) ==
    MatchesFrom(p, text,
        FirstOf({k \in i..Len(text) : CanFinish(p, 1, text, k, 1..(Len(text) + 1))}))

\* the matches from the first one on, which starts at position start (0: none)
MatchesFrom(p, text, start) ==
    IF start = 0 THEN <<>>
    ELSE Cons(p, text, start, MatchTo(p, text, start, 1..(Len(text) + 1)))

\* the match m found at position start, followed by the matches after it
Cons(p, text, start, m) ==
    <<[start |-> start, end |-> m.end, groups |-> m.groups]>>
    \o FindAll(p, text, IF m.end >= start THEN m.end + 1 ELSE start + 1)

\* re.search(p, text) finds a match
Found(p, text) == \E i \in 1..Len(text) : MatchAt(p, text, i).ok

\* the text with each of the matches ms replaced by what Repl makes of its
\* groups
Replaced(ms, Repl(_), text) ==
    IF ms = <<>> THEN text
    ELSE Join([k \in 1..Len(ms) |->
                SubSeq(text, IF k = 1 THEN 1 ELSE ms[k - 1].end + 1, ms[k].start - 1)
                \o Repl(ms[k].groups)], "")
         \o From(text, ms[Len(ms)].end + 1)

\* re.sub(p, repl, text) for a function repl of the groups of a match and
\* a pattern that matches no empty text
SubWith(p, Repl(_), text) ==
    IF text = "" THEN "" ELSE Replaced(FindAll(p, text, 1), Repl, text)

\* a replacement template: literal parts and group references \g
T(s) == [lit |-> s, g |-> 0]
G(g) == [lit |-> "", g |-> g]
Expand(template, groups) ==
    Join([k \in 1..Len(template) |->
            IF template[k].g = 0 THEN template[k].lit ELSE groups[template[k].g]], "")

\* re.sub(p, template, text)
Sub(p, template, text) == SubWith(p, LAMBDA groups : Expand(template, groups), text)

\* one statement "content = re.sub(p, replacement, content)" of the converter:
\* the pattern and the replacement, a template or the name of a function
Rule(p, template) == [p |-> p, by |-> "template", template |-> template]
RuleBy(p, by) == [p |-> p, by |-> by, template |-> <<>>]

-----------------------------------------------------------------------------
(* RazorToJSXConverter: the rewriting rules of _convert_razor_to_jsx       *)

\* str.replace(old, new) for a non-empty old
StrReplace(s, old, new) == Sub(<<Lit(old)>>, <<T(new)>>, s)

\* str.rstrip()
RStrip(s) ==
    LET kept == {i \in 1..Len(s) : ~IsSpace(Ch(s, i))}
    IN  IF kept = {} THEN "" ELSE SubSeq(s, 1, CHOOSE i \in kept : \A k \in kept : k <= i)

\* str.capitalize()
Capitalize(w) == IF w = "" THEN "" ELSE UpperChar(Ch(w, 1)) \o Lower(From(w, 2))

\* @if\s*\(([^)]+)\)\s*{([^}]+)}
IfPattern ==
    <<Lit("@if"), Spaces0, Lit("(")>> \o NotGroup1(1, {")"}) \o <<Lit(")"), Spaces0, Lit("{")>>
    \o NotGroup1(2, {"}"}) \o <<Lit("}")>>

\* @if\s*\(([^)]+)\)\s*{([^}]+)}\s*@?else\s*{([^}]+)}
IfElsePattern ==
    IfPattern
    \o <<Spaces0, Cls({"@"}, FALSE, 0, FALSE, FALSE), Lit("else"), Spaces0, Lit("{")>>
    \o NotGroup1(3, {"}"}) \o <<Lit("}")>>

\* C# comparison operators written as JavaScript ones
JsCondition(condition) == StrReplace(StrReplace(condition, "==", "==="), "!=", "!==")

replace_if(groups) ==
    "{(" \o JsCondition(Strip(groups[1])) \o ") && (\n  " \o Strip(groups[2]) \o "\n)}"

replace_if_else(groups) ==
    "{(" \o JsCondition(Strip(groups[1])) \o ") ? (\n  " \o Strip(groups[2])
    \o "\n) : (\n  " \o Strip(groups[3]) \o "\n)}"

\* the rule without else is applied to the whole text first
ConditionalRules ==
    <<RuleBy(IfPattern, "replace_if"), RuleBy(IfElsePattern, "replace_if_else")>>

\* @foreach\s*\((?:var\s+)?(\w+)\s+in\s+([^)]+)\)\s*{([^}]+)}
ForeachPattern ==
    <<Lit("@foreach"), Spaces0, Lit("("), Opt(<<Lit("var"), Spaces1>>)>>
    \o WordGroup(1) \o <<Spaces1, Lit("in"), Spaces1>> \o NotGroup1(2, {")"})
    \o <<Lit(")"), Spaces0, Lit("{")>> \o NotGroup1(3, {"}"}) \o <<Lit("}")>>

\* the item variable is substituted by itself in the body
replace_foreach(groups) ==
    "{(" \o Strip(groups[2]) \o " || []).map((" \o groups[1]
    \o ", index) => (\n  <div key={index}>\n    " \o Strip(groups[3])
    \o "\n  </div>\n))}"

\* @for\s*\([^)]+\)\s*{[^}]+}
ForPattern ==
    <<Lit("@for"), Spaces0, Lit("("), Not1({")"}), Lit(")"), Spaces0, Lit("{"),
      Not1({"}"}), Lit("}")>>

FOR_TODO == "/* TODO: Convert @for loop to JSX */"

LoopRules ==
    <<RuleBy(ForeachPattern, "replace_foreach"), Rule(ForPattern, <<T(FOR_TODO)>>)>>

\* (?:var|string|int)\s+(\w+)\s*=\s*([^;]+);
AssignmentPattern ==
    <<Alt(<< <<Lit("var")>>, <<Lit("string")>>, <<Lit("int")>> >>), Spaces1>>
    \o WordGroup(1) \o <<Spaces0, Lit("="), Spaces0>> \o NotGroup1(2, {";"}) \o <<Lit(";")>>

\* the replacement of one @{...} block
_convert_code_block(groups) ==
    LET code == Strip(groups[1])
        assignments == FindAll(AssignmentPattern, code, 1)
        converted == [k \in 1..Len(assignments) |->
                        "const " \o assignments[k].groups[1] \o " = "
                        \o assignments[k].groups[2] \o ";"]
    IN  IF /\ \/ IsSubstring("var ", code)
              \/ IsSubstring("string ", code)
              \/ IsSubstring("int ", code)
           /\ assignments # <<>>
        THEN "{\n  " \o Join(converted, "\n  ") \o "\n}"
        ELSE "{/* TODO: Convert code block:\n" \o code \o "\n*/}"

\* @Html.<helper>(m\s*=>\s*m\.(\w+)\)
HelperFor(helper) ==
    <<Lit("@Html." \o helper \o "(m"), Spaces0, Lit("=>"), Spaces0, Lit("m.")>>
    \o WordGroup(1) \o <<Lit(")")>>

HtmlHelperRules ==
    << Rule(<<Lit("@Html.ActionLink(\"")>> \o NotGroup0(1, {"\""})
                  \o <<Lit("\","), Spaces0, Lit("\"")>> \o NotGroup0(2, {"\""})
                  \o <<Lit("\","), Spaces0, Lit("\"")>> \o NotGroup0(3, {"\""})
                  \o <<Lit("\")")>>,
                  <<T("<a href=\"/"), G(3), T("/"), G(2), T("\">"), G(1), T("</a>")>>),
       Rule(<<Lit("@using"), Spaces0, Lit("(Html.BeginForm("), Not0({")"}),
                    Lit("))"), Spaces0, Lit("{")>>,
                  <<T("<form>")>>),
       Rule(HelperFor("LabelFor"),
                  <<T("<label htmlFor=\""), G(1), T("\">"), G(1), T("</label>")>>),
       Rule(HelperFor("TextBoxFor"),
                  <<T("<input type=\"text\" name=\""), G(1), T("\" value={props."), G(1),
                    T(" || \"\"} onChange={handleChange} />")>>),
       Rule(HelperFor("PasswordFor"),
                  <<T("<input type=\"password\" name=\""), G(1), T("\" value={props."), G(1),
                    T(" || \"\"} onChange={handleChange} />")>>),
       Rule(HelperFor("TextAreaFor"),
                  <<T("<textarea name=\""), G(1), T("\" value={props."), G(1),
                    T(" || \"\"} onChange={handleChange}></textarea>")>>),
       Rule(HelperFor("CheckBoxFor"),
                  <<T("<input type=\"checkbox\" name=\""), G(1), T("\" checked={props."), G(1),
                    T("} onChange={handleChange} />")>>),
       Rule(<<Lit("@Html.DropDownListFor(m"), Spaces0, Lit("=>"), Spaces0, Lit("m.")>>
                  \o WordGroup(1) \o <<Lit(","), Spaces0>> \o NotGroup1(2, {")"})
                  \o <<Lit(")")>>,
                  <<T("<select name=\""), G(1), T("\" value={props."), G(1),
                    T("} onChange={handleChange}>\n  {/* TODO: Add options from "), G(2),
                    T(" */}\n</select>")>>),
       Rule(HelperFor("ValidationMessageFor"),
                  <<T("{errors."), G(1), T(" && <span className=\"error\">{errors."), G(1),
                    T("}</span>}")>>),
       Rule(<<Lit("@Html.AntiForgeryToken()")>>, <<T("/* TODO: Add CSRF token */")>>),
       Rule(<<Lit("@Html.Partial(\"")>> \o NotGroup0(1, {"\""}) \o <<Lit("\""),
                     Opt(<<Lit(","), Spaces0>> \o NotGroup1(2, {")"})), Lit(")")>>,
                   <<T("<"), G(1), T("Component {...("), G(2), T(" || {})} />")>>),
       Rule(<<Lit("@Html.Raw(")>> \o NotGroup1(1, {")"}) \o <<Lit(")")>>,
            <<T("<div dangerouslySetInnerHTML={{__html: "), G(1), T("}} />")>>) >>

\* <tag>\s+asp-action="([^"]*)"\s+asp-controller="([^"]*)">
ActionTag(tag) ==
    <<Lit(tag), Spaces1, Lit("asp-action=\"")>> \o NotGroup0(1, {"\""})
    \o <<Lit("\""), Spaces1, Lit("asp-controller=\"")>> \o NotGroup0(2, {"\""})
    \o <<Lit("\">")>>

TagHelperRules ==
    << Rule(ActionTag("<a"), <<T("<a href=\"/"), G(2), T("/"), G(1), T("\">")>>),
       Rule(ActionTag("<form"), <<T("<form onSubmit={handleSubmit}>")>>),
       Rule(<<Lit("<input"), Spaces1, Lit("asp-for=\"")>> \o WordGroup(1) \o <<Lit("\"")>>,
                  <<T("<input name=\""), G(1), T("\" value={props."), G(1),
                    T(" || \"\"} onChange={handleChange}")>>),
       Rule(<<Lit("<label"), Spaces1, Lit("asp-for=\"")>> \o WordGroup(1) \o <<Lit("\">")>>,
                  <<T("<label htmlFor=\""), G(1), T("\">")>>),
       Rule(<<Lit("<span"), Spaces1, Lit("asp-validation-for=\"")>> \o WordGroup(1)
            \o <<Lit("\"></span>")>>,
            <<T("{errors."), G(1), T(" && <span className=\"error\">{errors."), G(1),
              T("}</span>}")>>) >>

\* the part of one "key: value" declaration in the style object, <<>> when
\* the declaration holds no colon
StyleEntry(prop) ==
    IF ~IsSubstring(":", prop) THEN <<>>
    ELSE LET colon == SetMin({i \in 1..Len(prop) : Ch(prop, i) = ":"})
             key_parts == SplitOn(Strip(SubSeq(prop, 1, colon - 1)), {"-"})
             camel_key == key_parts[1]
                          \o Join([k \in 1..(Len(key_parts) - 1) |->
                                      Capitalize(key_parts[k + 1])], "")
         IN  <<camel_key \o ": \"" \o Strip(From(prop, colon + 1)) \o "\"">>

_convert_inline_style(groups) ==
    LET declarations == SplitOn(groups[1], {";"})
        styles == Flatten([k \in 1..Len(declarations) |-> StyleEntry(declarations[k])])
    IN  IF styles # <<>> THEN "style={{" \o Join(styles, ", ") \o "}}" ELSE ""

AttributeRules ==
    << Rule(<<WordBoundary, Lit("class=\"")>>, <<T("className=\"")>>),
       Rule(<<WordBoundary, Lit("for=\"")>>, <<T("htmlFor=\"")>>),
       Rule(<<WordBoundary, Lit("checked=\"checked\"")>>, <<T("checked={true}")>>),
       Rule(<<WordBoundary, Lit("disabled=\"disabled\"")>>, <<T("disabled={true}")>>),
       Rule(<<WordBoundary, Lit("readonly=\"readonly\"")>>, <<T("readOnly={true}")>>),
       RuleBy(<<Lit("style=\"")>> \o NotGroup0(1, {"\""}) \o <<Lit("\"")>>,
              "_convert_inline_style") >>

\* the lines without the spaces at their ends, and the whole text stripped
StripLines(content) ==
    LET lines == SplitOn(content, {"\n"})
    IN  Strip(Join([k \in 1..Len(lines) |-> RStrip(lines[k])], "\n"))

\* blank lines are squeezed first, then the lines are stripped
WhitespaceRules ==
    << Rule(<<Lit("\n"), Spaces0, Lit("\n"), Spaces0, Lit("\n")>>, <<T("\n\n")>>),
       RuleBy(<<>>, "strip_lines") >>

\* the statements of _convert_razor_to_jsx before it hands the text to the
\* helper and attribute conversions
DirectiveRules ==
    << Rule(<<Lit("@page"), Spaces1, Lit("\""), Not0({"\""}), Lit("\"")>>, <<>>),
       Rule(<<Lit("@model"), Spaces1, Dotted1>>, <<>>),
       Rule(<<Lit("@using"), Spaces1, Dotted1>>, <<>>),
       Rule(<<Lit("@inject"), Spaces1, Dotted1, Spaces1, Word1>>, <<>>),
       Rule(<<Lit("@section"), Spaces1>> \o WordGroup(1) \o <<Spaces0, Lit("{")>>,
            <<T("/* TODO: Handle section "), G(1), T(" */")>>),
       Rule(<<Lit("@*"), Open(1), AnyLazy1, Close(1), Lit("*@")>>,
            <<T("{/* "), G(1), T(" */}")>>) >>

ExpressionRules ==
    << RuleBy(<<Lit("@{")>> \o NotGroup1(1, {"}"}) \o <<Lit("}")>>, "_convert_code_block"),
       Rule(<<Lit("@")>> \o WordGroup(1) \o <<NotAhead({"{", "("})>>,
            <<T("{"), G(1), T("}")>>),
       Rule(<<Lit("@Model.")>> \o WordGroup(1), <<T("{props."), G(1), T("}")>>) >>

\* what a match is replaced by
Replacement(rule, groups) ==
    CASE rule.by = "template" -> Expand(rule.template, groups)
      [] rule.by = "replace_if" -> replace_if(groups)
      [] rule.by = "replace_if_else" -> replace_if_else(groups)
      [] rule.by = "replace_foreach" -> replace_foreach(groups)
      [] rule.by = "_convert_code_block" -> _convert_code_block(groups)
      [] rule.by = "_convert_inline_style" -> _convert_inline_style(groups)

ApplyRule(rule, text) ==
    IF rule.by = "strip_lines" THEN StripLines(text)
    ELSE SubWith(rule.p, LAMBDA groups : Replacement(rule, groups), text)

\* the statements lo..hi of a list, one after the other
RECURSIVE ApplyRange(_, _, _, _)
ApplyRange(rules, lo, hi, text) ==
    CASE lo > hi -> text
      [] lo = hi -> ApplyRule(rules[lo], text)
      [] OTHER ->
            LET q == (hi - lo + 7) \div 7
                a == ApplyRange(rules, lo, lo + q - 1, text)
                b == ApplyRange(rules, lo + q, Least(lo + (2 * q) - 1, hi), a)
                c == ApplyRange(rules, lo + (2 * q), Least(lo + (3 * q) - 1, hi), b)
                d == ApplyRange(rules, lo + (3 * q), Least(lo + (4 * q) - 1, hi), c)
                e == ApplyRange(rules, lo + (4 * q), Least(lo + (5 * q) - 1, hi), d)
                f == ApplyRange(rules, lo + (5 * q), Least(lo + (6 * q) - 1, hi), e)
                g == ApplyRange(rules, lo + (6 * q), hi, f)
            IN  Last(<<a, b, c, d, e, f, g>>)

ApplyRules(rules, text) == ApplyRange(rules, 1, Len(rules), text)

_convert_conditionals(content) == ApplyRules(ConditionalRules, content)
_convert_loops(content) == ApplyRules(LoopRules, content)
_convert_html_helpers(content) == ApplyRules(HtmlHelperRules, content)
_convert_tag_helpers(content) == ApplyRules(TagHelperRules, content)
_fix_jsx_attributes(content) == ApplyRules(AttributeRules, content)
_clean_whitespace(content) == ApplyRules(WhitespaceRules, content)

\* the rules in the order _convert_razor_to_jsx applies them
RazorRules ==
    DirectiveRules \o ConditionalRules \o LoopRules \o ExpressionRules
    \o HtmlHelperRules \o TagHelperRules \o AttributeRules \o WhitespaceRules

_convert_razor_to_jsx(content) == ApplyRules(RazorRules, content)

-----------------------------------------------------------------------------
(* RazorToJSXConverter: convert_file, convert_directory, _generate_report   *)
(* and the two branches of main                                             *)

\* re.split(r'[_\-\s]', name)
SplitName(s) == SplitOn(s, {"_", "-"} \cup SpaceSet)

\* _get_component_name: the words of the stem, capitalized and joined
_get_component_name(path) ==
    LET words == SplitName(Stem(FileName(path)))
    IN  Join([k \in 1..Len(words) |-> Capitalize(words[k])], "")

FORM_HANDLING ==
    "  const [formData, setFormData] = React.useState({});\n"
    \o "  \n"
    \o "  const handleChange = (e) => {\n"
    \o "    const { name, value, type, checked } = e.target;\n"
    \o "    setFormData(prev => ({\n"
    \o "      ...prev,\n"
    \o "      [name]: type === 'checkbox' ? checked : value\n"
    \o "    }));\n"
    \o "  };\n"
    \o "  \n"
    \o "  const handleSubmit = (e) => {\n"
    \o "    e.preventDefault();\n"
    \o "    // TODO: Handle form submission\n"
    \o "    console.log('Form data:', formData);\n"
    \o "  };\n"
    \o "  \n"

ERRORS_STATE ==
    "  const [errors, setErrors] = React.useState({});\n"
    \o "  \n"

\* _generate_react_component; the props argument is not used by the code
_generate_react_component(component_name, jsx_content) ==
    LET needs_form_handling == \/ IsSubstring("handleChange", jsx_content)
                               \/ IsSubstring("handleSubmit", jsx_content)
        needs_errors == IsSubstring("errors.", jsx_content)
    IN  "import React from 'react';\n\nconst " \o component_name \o " = (props) => {\n"
        \o (IF needs_form_handling THEN FORM_HANDLING ELSE "")
        \o (IF needs_errors THEN ERRORS_STATE ELSE "")
        \o "  return (\n    " \o jsx_content \o "\n  );\n};\n\nexport default "
        \o component_name \o ";\n"

\* read_text(encoding='utf-8', errors='ignore'): undecodable bytes are dropped
DecodeText(bytes) == StrReplace(bytes, BadByte, "")

\* convert_file: the component text, or the exception read_text raises
convert_file(file) ==
    IF file.readable
    THEN [raised |-> NoError,
          component |-> _generate_react_component(
                            _get_component_name(file.path),
                            _convert_razor_to_jsx(DecodeText(file.content)))]
    ELSE [raised |-> "PermissionError", component |-> ""]

\* Path.with_suffix('.jsx')
WithSuffixJsx(path) ==
    [i \in 1..Len(path) |-> IF i = Len(path) THEN Stem(path[i]) \o ".jsx" ELSE path[i]]

\* Path.write_text: the file at that path holds the text from now on
WriteText(files, path, text) ==
    SelectSeq(files, LAMBDA f : f.path # path) \o <<[path |-> path, text |-> text]>>

\* one line printed about a file
RazorLine(kind, what) == [kind |-> kind, what |-> what]

REPORT_HEAD ==
    << "# Razor to JSX Conversion Report", "" >>

REVIEW_ITEMS ==
    << "## Manual Review Required",
       "",
       "The following items require manual review and adjustment:",
       "",
       "1. **Complex code blocks** - Check for " \o BQ \o "TODO: Convert code block" \o BQ \o " comments",
       "2. **Form handling** - Implement " \o BQ \o "handleSubmit" \o BQ \o " functions with proper API calls",
       "3. **Validation** - Implement client-side validation to match server-side rules",
       "4. **Sections** - Handle layout sections (scripts, styles) appropriately",
       "5. **Partial views** - Ensure component imports and props are correct",
       "6. **Model properties** - Verify all prop types and usages",
       "7. **HTML helpers** - Review converted form inputs and bindings",
       "8. **Loops** - Check converted @foreach statements work correctly",
       "9. **Conditionals** - Verify @if/@else conversions",
       "10. **Route generation** - Update links to use proper routing",
       "",
       "## Files Converted",
       "" >>

NEXT_STEPS ==
    << "",
       "## Next Steps",
       "",
       "1. Review all converted components for TODOs",
       "2. Add proper prop types (PropTypes or TypeScript)",
       "3. Implement state management if needed",
       "4. Add API integration for data fetching",
       "5. Test components individually",
       "6. Add styling (CSS modules, styled-components, etc.)" >>

\* the decimal digits of a natural number
RECURSIVE Decimal(_)
Decimal(n) ==
    IF n < 10 THEN Ch(DigitChars, n + 1) ELSE Decimal(n \div 10) \o Ch(DigitChars, (n % 10) + 1)

\* _generate_report: the lines of CONVERSION_REPORT.md
_generate_report(files) ==
    REPORT_HEAD
    \o <<"Total files converted: " \o Decimal(Len(files)), "">>
    \o REVIEW_ITEMS
    \o [k \in 1..Len(files) |-> "- " \o PathText(files[k].path)]
    \o NEXT_STEPS

\* __init__: the paths are kept and the output directory is made
RazorConstruct ==
    /\ razor_pc = "new"
    /\ razor_pc' = "constructed"
    /\ UNCHANGED <<razor_input, razor_files, razor_next, components, report, razor_printed>>
    /\ UNCHANGED exceptRazor

\* main, input_path.is_file(): the file is converted and saved under its own
\* name in the output directory; an exception ends main with status 1
ConvertSingleFile ==
    /\ razor_pc = "constructed"
    /\ razor_input.is_file
    /\ LET file == razor_input.files[1]
           result == convert_file(file)
       IN  IF result.raised = NoError
           THEN /\ components' = WriteText(components,
                                           WithSuffixJsx(<<FileName(file.path)>>),
                                           result.component)
                /\ razor_printed' = razor_printed
                       \o <<RazorLine("Converting", FileName(file.path)),
                            RazorLine("Component saved to", PathText(WithSuffixJsx(<<FileName(file.path)>>)))>>
                /\ razor_pc' = "done"
           ELSE /\ components' = components
                /\ razor_printed' = razor_printed
                       \o <<RazorLine("Converting", FileName(file.path)),
                            RazorLine("Error", result.raised)>>
                /\ razor_pc' = "raised"
    /\ UNCHANGED <<razor_input, razor_files, razor_next, report>>
    /\ UNCHANGED exceptRazor

\* convert_directory up to its loop: input_path.rglob('*.cshtml'); with no file
\* found it prints that and returns
ListRazorFiles ==
    /\ razor_pc = "constructed"
    /\ ~razor_input.is_file
    /\ LET found == GlobAll(razor_input.files, ".cshtml")
       IN  /\ razor_files' = found
           /\ IF found = <<>>
              THEN /\ razor_printed' = razor_printed \o <<RazorLine("No .cshtml files found in", "")>>
                   /\ razor_next' = razor_next
                   /\ razor_pc' = "done"
              ELSE /\ razor_printed' = razor_printed
                         \o <<RazorLine("Found Razor files to convert", Decimal(Len(found)))>>
                   /\ razor_next' = 1
                   /\ razor_pc' = "converting"
    /\ UNCHANGED <<razor_input, components, report>>
    /\ UNCHANGED exceptRazor

\* one turn of the loop of convert_directory: the file is converted and saved
\* under its relative path, or the exception is printed and the loop goes on
ConvertNextFile ==
    /\ razor_pc = "converting"
    /\ razor_next <= Len(razor_files)
    /\ LET file == razor_files[razor_next]
           result == convert_file(file)
       IN  IF result.raised = NoError
           THEN /\ components' = WriteText(components, WithSuffixJsx(file.path),
                                           result.component)
                /\ razor_printed' = razor_printed
                       \o <<RazorLine("Converting", FileName(file.path)),
                            RazorLine("Saved to", PathText(WithSuffixJsx(file.path)))>>
           ELSE /\ components' = components
                /\ razor_printed' = razor_printed
                       \o <<RazorLine("Converting", FileName(file.path)),
                            RazorLine("Error converting", FileName(file.path))>>
    /\ razor_next' = razor_next + 1
    /\ UNCHANGED <<razor_input, razor_files, report, razor_pc>>
    /\ UNCHANGED exceptRazor

\* the end of convert_directory: _generate_report(razor_files)
GenerateReport ==
    /\ razor_pc = "converting"
    /\ razor_next > Len(razor_files)
    /\ report' = _generate_report(razor_files)
    /\ razor_printed' = razor_printed \o <<RazorLine("Conversion report saved to", "CONVERSION_REPORT.md")>>
    /\ razor_pc' = "done"
    /\ UNCHANGED <<razor_input, razor_files, razor_next, components>>
    /\ UNCHANGED exceptRazor

NextRazor ==
    \/ RazorConstruct
    \/ ConvertSingleFile
    \/ ListRazorFiles
    \/ ConvertNextFile
    \/ GenerateReport

-----------------------------------------------------------------------------
(* BackendInitializer: the constructor and the steps of initialize()       *)
(* The state holds which directories and files are made and the lines of   *)
(* requirements.txt; the text of the other files is a fixed template.      *)

Dir(path) == [kind |-> "dir", path |-> path]
File(path) == [kind |-> "file", path |-> path]

\* the directory that holds a path under project_path; "" is project_path
ParentOf(path) ==
    LET cuts == {i \in 1..Len(path) : Ch(path, i) = "/"}
    IN  IF cuts = {} THEN ""
        ELSE SubSeq(path, 1, (CHOOSE i \in cuts : \A k \in cuts : k <= i) - 1)

\* the directories from project_path down to a path, outermost first
RECURSIVE DirsDownTo(_)
DirsDownTo(path) == IF path = "" THEN <<"">> ELSE DirsDownTo(ParentOf(path)) \o <<path>>

\* mkdir(parents=True, exist_ok=True): the directories that are missing are made
Mkdir(created, path) ==
    created \o SelectSeq([k \in 1..Len(DirsDownTo(path)) |-> Dir(DirsDownTo(path)[k])],
                         LAMBDA d : \A i \in DOMAIN created : created[i] # d)

\* _write_file: the parent directory is made, then the file is written
_write_file(created, path) == Mkdir(created, ParentOf(path)) \o <<File(path)>>

RECURSIVE MkdirEach(_, _), WriteEach(_, _)
MkdirEach(created, paths) ==
    IF paths = <<>> THEN created ELSE MkdirEach(Mkdir(created, Head(paths)), Tail(paths))
WriteEach(created, paths) ==
    IF paths = <<>> THEN created ELSE WriteEach(_write_file(created, Head(paths)), Tail(paths))

FASTAPI_DIRS ==
    << "app", "app/api", "app/api/routes", "app/core", "app/models", "app/schemas",
       "app/services", "app/db", "tests" >>

FASTAPI_FILES ==
    << "app/main.py", "app/core/config.py", "app/core/__init__.py", "app/db/database.py",
       "app/db/__init__.py", "app/models/product.py", "app/models/__init__.py",
       "app/schemas/product.py", "app/schemas/__init__.py", "app/api/routes/products.py",
       "app/api/routes/auth.py", "app/api/routes/__init__.py", "app/api/__init__.py",
       "app/__init__.py" >>

FLASK_DIRS == << "app", "app/api", "app/models", "app/services", "tests" >>

FLASK_FILES == << "app/__init__.py", "config.py", "run.py" >>

_init_fastapi(created) == WriteEach(MkdirEach(created, FASTAPI_DIRS), FASTAPI_FILES)
_init_flask(created) == WriteEach(MkdirEach(created, FLASK_DIRS), FLASK_FILES)

\* the database driver the fastapi and flask lists get
DriverOf(db_type) ==
    IF db_type = "postgresql" THEN <<"psycopg2-binary==2.9.9">>
    ELSE IF db_type = "mysql" THEN <<"pymysql==1.1.0">>
    ELSE <<>>

\* _create_requirements: the lines of requirements.txt, empty entries left out
_create_requirements(framework, db_type) ==
    SelectSeq(
        IF framework = "fastapi"
        THEN << "fastapi[all]==0.109.0", "uvicorn[standard]==0.27.0", "sqlalchemy==2.0.25",
                "pydantic==2.5.3", "pydantic-settings==2.1.0",
                "python-jose[cryptography]==3.3.0", "passlib[bcrypt]==1.7.4",
                "python-multipart==0.0.6", "alembic==1.13.1" >>
             \o DriverOf(db_type)
             \o << "pytest==7.4.4", "pytest-cov==4.1.0", "httpx==0.26.0" >>
        ELSE IF framework = "flask"
        THEN << "Flask==3.0.0", "Flask-SQLAlchemy==3.1.1", "Flask-CORS==4.0.0",
                "Flask-JWT-Extended==4.5.3", "Flask-Migrate==4.0.5" >>
             \o DriverOf(db_type)
             \o << "pytest==7.4.4", "pytest-flask==1.3.0" >>
        ELSE << "Django==5.0", "djangorestframework==3.14.0",
                "djangorestframework-simplejwt==5.3.1", "django-cors-headers==4.3.1",
                IF db_type = "postgresql" THEN "psycopg2-binary==2.9.9" ELSE "",
                "pytest==7.4.4", "pytest-django==4.7.0" >>,
        LAMBDA r : r # "")

\* BackendInitializer.__init__
BackendConstruct ==
    /\ backend_pc = "new"
    /\ backend_framework' = Lower(backend_args.framework)
    /\ backend_db_type' = Lower(backend_args.db_type)
    /\ backend_pc' = "constructed"
    /\ UNCHANGED <<backend_args, backend_created, requirements_txt, exceptBackend>>

\* the chain with a plain else for django and no raise
InitFramework_else_django ==
    /\ backend_pc = "constructed"
    /\ backend_created' =
          IF backend_framework = "fastapi" THEN _init_fastapi(backend_created)
          ELSE IF backend_framework = "flask" THEN _init_flask(backend_created)
          ELSE backend_created
    /\ backend_pc' = "_init"
    /\ UNCHANGED <<backend_args, backend_framework, backend_db_type, requirements_txt,
                   exceptBackend>>

\* initialize(): the if/elif chain over self.framework; an unsupported name
\* raises ValueError
InitFramework ==
    /\ backend_pc = "constructed"
    /\ backend_created' =
          IF backend_framework = "fastapi" THEN _init_fastapi(backend_created)
          ELSE IF backend_framework = "flask" THEN _init_flask(backend_created)
          ELSE backend_created
    /\ backend_pc' = IF backend_framework \in {"fastapi", "flask", "django"}
                     THEN "_init" ELSE "raised"
    /\ UNCHANGED <<backend_args, backend_framework, backend_db_type, requirements_txt,
                   exceptBackend>>

\* initialize(): self._create_requirements()
CreateRequirements ==
    /\ backend_pc = "_init"
    /\ requirements_txt' = _create_requirements(backend_framework, backend_db_type)
    /\ backend_created' = _write_file(backend_created, "requirements.txt")
    /\ backend_pc' = "_create_requirements"
    /\ UNCHANGED <<backend_args, backend_framework, backend_db_type, exceptBackend>>

\* initialize(): self._create_gitignore()
CreateGitignore ==
    /\ backend_pc = "_create_requirements"
    /\ backend_created' = _write_file(backend_created, ".gitignore")
    /\ backend_pc' = "_create_gitignore"
    /\ UNCHANGED <<backend_args, backend_framework, backend_db_type, requirements_txt,
                   exceptBackend>>

\* initialize(): self._create_readme()
CreateReadme ==
    /\ backend_pc = "_create_gitignore"
    /\ backend_created' = _write_file(backend_created, "README.md")
    /\ backend_pc' = "_create_readme"
    /\ UNCHANGED <<backend_args, backend_framework, backend_db_type, requirements_txt,
                   exceptBackend>>

\* initialize(): self._create_docker_files(); initialize() returns
CreateDockerFiles ==
    /\ backend_pc = "_create_readme"
    /\ backend_created' = WriteEach(backend_created, <<"Dockerfile", "docker-compose.yml">>)
    /\ backend_pc' = "done"
    /\ UNCHANGED <<backend_args, backend_framework, backend_db_type, requirements_txt,
                   exceptBackend>>

NextBackend ==
    \/ BackendConstruct
    \/ InitFramework
    \/ CreateRequirements
    \/ CreateGitignore
    \/ CreateReadme
    \/ CreateDockerFiles

-----------------------------------------------------------------------------
(* Inputs of the pure functions                                            *)

\* length of the text put before and after a type word to form a type token
MaxAffixLen == 1
\* length of the names handed to _to_snake_case
MaxNameLen == 4

RECURSIVE StringsOfLen(_, _)
StringsOfLen(S, n) ==
    IF n = 0 THEN {""} ELSE {c \o r : c \in S, r \in StringsOfLen(S, n - 1)}
StringsUpTo(S, n) == UNION {StringsOfLen(S, k) : k \in 0..n}

\* every letter-casing of a word
RECURSIVE Casings(_)
Casings(w) ==
    IF w = "" THEN {""}
    ELSE {c \o r : c \in {Ch(w, 1), UpperChar(Ch(w, 1))}, r \in Casings(From(w, 2))}

TableKeys == {TYPE_MAPPINGS[i].key : i \in DOMAIN TYPE_MAPPINGS}

\* type words that hold no table key
OtherWords == {"", "Customer", "object", "char"}

AffixChars == {"u", "s", "?", "X"}

TypeTokens ==
    (UNION {Casings(k) : k \in TableKeys})
    \cup {p \o w \o s : p \in StringsUpTo(AffixChars, MaxAffixLen),
                        w \in TableKeys \cup OtherWords,
                        s \in StringsUpTo(AffixChars, MaxAffixLen)}

NameChars == {"A", "B", "a", "b", "1", "_", "\n"}
Names == StringsUpTo(NameChars, MaxNameLen)

-----------------------------------------------------------------------------
(* Components at rest (not taking part in a specification)                 *)

GenIdle   == /\ gen_tree = <<>> /\ framework_arg = "" /\ target_framework = ""
             /\ models = <<>> /\ models_py = <<>> /\ migration_guide = <<>>
             /\ gen_pc = "idle"
MapIdle   == /\ csharp_type = "" /\ map_result = None /\ map_pc = "idle"
SnakeIdle == /\ name = "" /\ snake_once = "" /\ snake_twice = ""
             /\ snake_pc = "idle"
AssessIdle == /\ project_tree = <<>> /\ inventory = None /\ diagnostics = <<>>
              /\ assess_pc = "idle"
ReadIdle  == /\ file_path = None /\ read_result = None /\ read_pc = "idle"
RazorIdle == /\ razor_input = None /\ razor_files = <<>> /\ razor_next = 0
             /\ components = <<>> /\ report = <<>> /\ razor_printed = <<>>
             /\ razor_pc = "idle"
\* no call of generate() or assess() is over
NoCalls == /\ gen_calls = 0 /\ assess_calls = 0
BackendIdle == /\ backend_args = None /\ backend_framework = "" /\ backend_db_type = ""
               /\ backend_created = <<>> /\ requirements_txt = <<>>
               /\ backend_pc = "idle"

-----------------------------------------------------------------------------
(* Type mapper: one call of _map_type on an arbitrary token                *)

InitMapType ==
    /\ NoCalls
    /\ csharp_type \in TypeTokens
    /\ map_result = None
    /\ map_pc = "call"
    /\ SnakeIdle /\ GenIdle /\ AssessIdle /\ ReadIdle /\ RazorIdle /\ BackendIdle

MapType ==
    /\ map_pc = "call"
    /\ map_result' = _map_type(csharp_type)
    /\ map_pc' = "returned"
    /\ UNCHANGED <<csharp_type, exceptMap>>

NextMapType == MapType

SpecMapType == InitMapType /\ [][NextMapType]_vars

-----------------------------------------------------------------------------
(* Case conversion: _to_snake_case applied to a name, then to its output   *)

InitSnake ==
    /\ NoCalls
    /\ name \in Names
    /\ snake_once = ""
    /\ snake_twice = ""
    /\ snake_pc = "call"
    /\ MapIdle /\ GenIdle /\ AssessIdle /\ ReadIdle /\ RazorIdle /\ BackendIdle

SnakeOnce ==
    /\ snake_pc = "call"
    /\ snake_once' = _to_snake_case(name)
    /\ snake_pc' = "once"
    /\ UNCHANGED <<name, snake_twice, exceptSnake>>

SnakeTwice ==
    /\ snake_pc = "once"
    /\ snake_twice' = _to_snake_case(snake_once)
    /\ snake_pc' = "twice"
    /\ UNCHANGED <<name, snake_once, exceptSnake>>

NextSnake == SnakeOnce \/ SnakeTwice

SpecSnake == InitSnake /\ [][NextSnake]_vars

-----------------------------------------------------------------------------
(* MigrationGenerator: construction and one generate() over a source tree  *)

\* the most property declarations drawn for the class of a generated tree
MaxProps == 3

\* the size in bytes given to an ordinary source file
SmallSize == 200

\* C# property declarations, each the sequence of its words
DeclId       == <<"[Key]", "public", "int", "Id", "{", "get;", "set;", "}">>
DeclTotal    == <<"public", "decimal", "Total", "{", "get;", "set;", "}">>
DeclCustomer == <<"public", "Customer", "Customer", "{", "get;", "set;", "}">>
DeclBuyerId  == <<"public", "Customer", "BuyerId", "{", "get;", "set;", "}">>
DeclItems    == <<"public", "virtual", "ICollection<Item>", "Items",
                  "{", "get;", "set;", "}">>
DeclName     == <<"[Required]", "[MaxLength(50)]", "public", "string", "Name",
                  "{", "get;", "set;", "}">>

Declarations == {DeclId, DeclTotal, DeclCustomer, DeclBuyerId, DeclItems, DeclName}

\* a get/set field of the given type
FieldOf(type_name, prop_name) == <<"public", type_name, prop_name, "{", "get;", "set;", "}">>

\* a class in a namespace with the given declarations as its body
ClassText(class_name, decls) ==
    <<"namespace", "Shop.Models", "{", "public", "class", class_name, "{">>
    \o Flatten(decls) \o <<"}", "}">>

\* the class Order of the end-to-end example
OrderExample == ClassText("Order", <<DeclId, DeclTotal, DeclCustomer>>)

\* a file of the source tree: path below the source directory, size as stat
\* reports it, whether it can be opened, and its text
SourceFile(path, size, readable, content) ==
    [path |-> path, size |-> size, readable |-> readable, content |-> content]

DeclSeqs == UNION {[1..n -> Declarations] : n \in 0..MaxProps}

\* trees of one ordinary file holding the class Order
OrderTrees ==
    {<<SourceFile("Models/Order.cs", SmallSize, TRUE, ClassText("Order", ds))>> :
        ds \in DeclSeqs}

\* trees of several files, in the order rglob yields them: a first file of
\* any size, readable or not, next to a text file, a DbContext and a second class
MixedTrees ==
    {<<SourceFile("Models/Invoice.cs", size, readable,
                  ClassText("Invoice", <<DeclId, DeclTotal>>)),
       SourceFile("Models/notes.txt", SmallSize, TRUE,
                  ClassText("Notes", <<DeclName>>)),
       SourceFile("Data/ShopContext.cs", SmallSize, TRUE,
                  <<"public", "class", "ShopContext", ":", "DbContext", "{",
                    "public", "DbSet<Order>", "Orders", "{", "get;", "set;", "}", "}">>),
       SourceFile("Models/Customer.cs", SmallSize, TRUE,
                  ClassText("Customer", <<d>>))>> :
        size \in {SmallSize, MAX_FILE_SIZE_BYTES, MAX_FILE_SIZE_BYTES + 1},
        readable \in BOOLEAN, d \in Declarations}

\* values of the constructor's target_framework: the two supported names in
\* some letter-casing, and an unsupported one
FrameworkArgs == {"sqlalchemy", "Django", "flask"}

InitGen ==
    /\ NoCalls
    /\ gen_tree \in OrderTrees \cup MixedTrees
    /\ framework_arg \in FrameworkArgs
    /\ target_framework = ""
    /\ models = <<>>
    /\ models_py = <<>>
    /\ migration_guide = <<>>
    /\ gen_pc = "new"
    /\ MapIdle /\ SnakeIdle /\ AssessIdle /\ ReadIdle /\ RazorIdle /\ BackendIdle

SpecGen == InitGen /\ [][NextGen]_vars

-----------------------------------------------------------------------------
(* DotNetAssessor: construction and one assess() over a project tree       *)

\* a file of the project tree: path components below project_path, size as
\* stat reports it, the exception stat, open and read raise (NoError when
\* they succeed) and the bytes of the file as words
ProjectFile(path, content) ==
    [path |-> path, size |-> SmallSize, stat_error |-> NoError,
     open_error |-> NoError, read_error |-> NoError, content |-> content]

CsprojFile ==
    ProjectFile(<<"App.csproj">>,
        <<"<Project", "Sdk=\"Microsoft.NET.Sdk.Web\">",
          "<PackageReference", "Include=\"Newtonsoft.Json\"", "Version=\"13.0.1\"", "/>",
          "<PackageReference", "Include=\"Microsoft.AspNetCore.Mvc.Core\"",
          "Version=\"2.2.5\"", "/>", "</Project>">>)

ControllerFile ==
    ProjectFile(<<"Controllers", "OrdersController.cs">>,
        <<"public", "class", "OrdersController", ":", "Controller", "{",
          "[HttpGet]", "public", "IActionResult", "Index()", "{", "return", "View();", "}",
          "[HttpPost]", "public", "async", "Task<IActionResult>", "Create(Order",
          "order)", "{", "return", "Ok();", "}", "}">>)

OrderFile == ProjectFile(<<"Models", "Order.cs">>, OrderExample)

ItemFile ==
    ProjectFile(<<"Models", "Domain", "Item.cs">>, ClassText("Item", <<DeclId, DeclName>>))

ViewFile ==
    ProjectFile(<<"Views", "Home", "Index.cshtml">>,
        <<"@model", "Order", "<h1>@Model.Total</h1>">>)

ServiceFile ==
    ProjectFile(<<"Services", "OrderService.cs">>,
        <<"public", "interface", "IOrderService", "{", "}",
          "public", "class", "OrderService", ":", "IOrderService", "{", "}">>)

ContextFile ==
    ProjectFile(<<"Data", "ShopContext.cs">>,
        <<"public", "class", "ShopContext", ":", "DbContext", "{",
          "public", "DbSet<Order>", "Orders", "{", "get;", "set;", "}", "}">>)

StartupFile ==
    ProjectFile(<<"Startup.cs">>,
        <<"public", "class", "Startup", "{", "services.AddAuthentication()",
          ".AddJwtBearer(options", "=>", "{", "});", "}">>)

NotesFile == ProjectFile(<<"notes.txt">>, <<"class", "NotesController">>)

\* the files of the project in one order of the directory walk
ProjectFiles ==
    <<CsprojFile, ControllerFile, OrderFile, ItemFile, ViewFile, ServiceFile,
      ContextFile, StartupFile, NotesFile>>

Reversed(files) == [i \in 1..Len(files) |-> files[Len(files) + 1 - i]]

\* files without its i-th element (all of it for i = 0)
Without(files, i) ==
    [k \in 1..(Len(files) - (IF i = 0 THEN 0 ELSE 1)) |->
        IF i = 0 \/ k < i THEN files[k] ELSE files[k + 1]]

\* what can be the matter with one file of the tree
Conditions ==
    {[size |-> MAX_FILE_SIZE_BYTES + 1, stat_error |-> NoError,
      open_error |-> NoError, read_error |-> NoError],
     [size |-> MAX_FILE_SIZE_BYTES, stat_error |-> NoError,
      open_error |-> NoError, read_error |-> NoError],
     [size |-> SmallSize, stat_error |-> "FileNotFoundError",
      open_error |-> NoError, read_error |-> NoError],
     [size |-> SmallSize, stat_error |-> NoError,
      open_error |-> "PermissionError", read_error |-> NoError],
     [size |-> SmallSize, stat_error |-> NoError,
      open_error |-> NoError, read_error |-> "OSError"]}

\* files with the condition c put on its i-th element (none for i = 0)
With(files, i, c) ==
    [k \in 1..Len(files) |->
        IF k # i THEN files[k]
        ELSE [files[k] EXCEPT !.size = c.size, !.stat_error = c.stat_error,
                              !.open_error = c.open_error, !.read_error = c.read_error]]

\* the project in either walk order, with at most one file left out and at
\* most one file oversized, at the ceiling, or failing to be read
ProjectTrees ==
    {With(Without(order, drop), i, c) :
        order \in {ProjectFiles, Reversed(ProjectFiles)},
        drop \in 0..Len(ProjectFiles),
        i \in 0..(Len(ProjectFiles) - 1),
        c \in Conditions}

InitAssess ==
    /\ NoCalls
    /\ project_tree \in ProjectTrees
    /\ inventory = None
    /\ diagnostics = <<>>
    /\ assess_pc = "new"
    /\ MapIdle /\ SnakeIdle /\ GenIdle /\ ReadIdle /\ RazorIdle /\ BackendIdle

SpecAssess == InitAssess /\ [][NextAssess]_vars

-----------------------------------------------------------------------------
(* DotNetAssessor: one call of _read_file on an arbitrary file             *)

\* the bytes of the files handed to _read_file: plain text, text with
\* undecodable bytes inside and between words
ReadContents ==
    {OrderExample,
     <<"public", "cl" \o BadByte \o "ass", BadByte \o BadByte, "Order", "{", "}">>,
     <<BadByte>>}

ReadInputs ==
    {[path |-> <<"Models", "Order.cs">>, size |-> size, stat_error |-> se,
      open_error |-> oe, read_error |-> re, content |-> content] :
        size \in {0, SmallSize, MAX_FILE_SIZE_BYTES, MAX_FILE_SIZE_BYTES + 1},
        se \in {NoError, "PermissionError", "FileNotFoundError", "OSError"},
        oe \in {NoError, "PermissionError", "IsADirectoryError"},
        re \in {NoError, "OSError"},
        content \in ReadContents \cup {<<>>}}

InitReadFile ==
    /\ NoCalls
    /\ file_path \in {f \in ReadInputs : f.size = 0 <=> f.content = <<>>}
    /\ read_result = None
    /\ read_pc = "call"
    /\ MapIdle /\ SnakeIdle /\ GenIdle /\ AssessIdle /\ RazorIdle /\ BackendIdle

SpecReadFile == InitReadFile /\ [][NextReadFile]_vars

-----------------------------------------------------------------------------
(* Converter: one run of main over a view file or a directory of views      *)

RazorFile(path, readable, content) ==
    [path |-> path, readable |-> readable, content |-> content]

ForLoopView == "<ul>\n@for (var i = 0; i < 3; i++) { <li>x</li> }\n</ul>"
SectionView == "@section Scripts { <script></script> }"
CodeBlockView == "@{ Log(x); }"

\* the texts of the view files
RazorViews ==
    { "<h1>@Model.Total</h1>",
      ForLoopView,
      SectionView,
      CodeBlockView,
      "@{ var x = 1; }",
      "@foreach (var item in Model.Items) { <li>@item.Name</li> }",
      "@if (Model.Ok) { <b>t</b> }",
      "@Html.TextBoxFor(m => m.Name)",
      "@Html.ValidationMessageFor(m => m.Name)",
      "<p>" \o BadByte \o "x</p>",
      "" }

\* the texts of the second view of a directory
RowViews == {"<td>@Model.Name</td>", ForLoopView, CodeBlockView}

IndexViews == {RazorFile(<<"Home", "Index.cshtml">>, r, c) : r \in BOOLEAN, c \in RazorViews}
RowFiles  == {RazorFile(<<"Shared", "_order-row.cshtml">>, r, c) : r \in BOOLEAN, c \in RowViews}
ReadmeFile == RazorFile(<<"README.md">>, TRUE, ForLoopView)

RazorInputs ==
    {[is_file |-> TRUE, files |-> <<v>>] : v \in IndexViews}
    \cup {[is_file |-> FALSE, files |-> <<ReadmeFile>>]}
    \cup {[is_file |-> FALSE, files |-> <<v, ReadmeFile>>] : v \in IndexViews}
    \cup {[is_file |-> FALSE, files |-> <<r, ReadmeFile, v>>] : v \in IndexViews, r \in RowFiles}

InitRazor ==
    /\ NoCalls
    /\ razor_input \in RazorInputs
    /\ razor_files = <<>>
    /\ razor_next = 0
    /\ components = <<>>
    /\ report = <<>>
    /\ razor_printed = <<>>
    /\ razor_pc = "new"
    /\ MapIdle /\ SnakeIdle /\ GenIdle /\ AssessIdle /\ ReadIdle /\ BackendIdle

SpecRazor == InitRazor /\ [][NextRazor]_vars

-----------------------------------------------------------------------------
(* Initializer: one BackendInitializer and one call of initialize()        *)

\* framework arguments: the supported names in some letter-casing, names of
\* other tools and the empty text
BackendFrameworks == {"fastapi", "FastAPI", "flask", "django", "Django", "sqlalchemy", "express", ""}

BackendDbTypes == {"postgresql", "PostgreSQL", "mysql", "sqlite", "oracle"}

InitBackend ==
    /\ NoCalls
    /\ backend_args \in [framework : BackendFrameworks, db_type : BackendDbTypes]
    /\ backend_framework = ""
    /\ backend_db_type = ""
    /\ backend_created = <<>>
    /\ requirements_txt = <<>>
    /\ backend_pc = "new"
    /\ MapIdle /\ SnakeIdle /\ GenIdle /\ AssessIdle /\ ReadIdle /\ RazorIdle

SpecBackend == InitBackend /\ [][NextBackend]_vars

-----------------------------------------------------------------------------
(* Claims on the type mapper and the case conversion                       *)

NoKeyMatches(t) ==
    \A i \in DOMAIN TYPE_MAPPINGS : ~IsSubstring(TYPE_MAPPINGS[i].key, Lower(t))

\* C1: _map_type is total: for every token (the empty one and those holding
\* no table key included) the call returns a pair of two non-empty strings,
\* and when no key of TYPE_MAPPINGS is a substring of the lower-cased token
\* the pair is exactly ('str', 'String').
C1_MapTypeTotal ==
    map_pc = "returned" =>
        /\ Len(map_result) = 2
        /\ map_result[1] # "" /\ map_result[2] # ""
        /\ NoKeyMatches(csharp_type) => map_result = <<"str", "String">>

\* a call on a token that holds no table key has returned
C1_Witness ==
    /\ map_pc = "returned"
    /\ csharp_type = "Customer?"
    /\ map_result = <<"str", "String">>

\* the pair the table lists for the key that token t is a letter-casing of
ListedPair(t) ==
    LET i == CHOOSE j \in DOMAIN TYPE_MAPPINGS : TYPE_MAPPINGS[j].key = Lower(t)
    IN  <<TYPE_MAPPINGS[i].py, TYPE_MAPPINGS[i].sa>>

\* C2: for every key k of TYPE_MAPPINGS and every letter-casing of k,
\* _map_type returns exactly the pair the table lists for k: no key iterated
\* earlier masks it ('long' gives BigInteger, 'byte[]' gives LargeBinary).
C2_KeysNotMasked ==
    (map_pc = "returned" /\ Lower(csharp_type) \in TableKeys) =>
        /\ map_result = ListedPair(csharp_type)
        /\ Lower(csharp_type) = "long" => map_result[2] = "BigInteger"
        /\ Lower(csharp_type) = "byte[]" => map_result[2] = "LargeBinary"

\* a mixed-case spelling of the key 'byte[]' has been mapped
C2_Witness ==
    /\ map_pc = "returned"
    /\ csharp_type = "Byte[]"
    /\ map_result = <<"bytes", "LargeBinary">>

\* C3: _to_snake_case is idempotent on its own output:
\* _to_snake_case(_to_snake_case(x)) = _to_snake_case(x) for every name x.
C3_SnakeIdempotent ==
    snake_pc = "twice" => snake_twice = snake_once

\* a name with an upper-case run followed by a capitalised word was converted
\* (separators were inserted) and converted again
C3_Witness ==
    /\ snake_pc = "twice"
    /\ name = "ABaB"
    /\ snake_once = "a_ba_b"

-----------------------------------------------------------------------------
(* RazorToJSXConverter: one run over a view that holds a conditional       *)

\* conditions as written in C# and as JavaScript wants them
IfConditions ==
    {<<"x", "x">>, <<"a == b", "a === b">>, <<"a != b", "a !== b">>,
     <<"a == b && c != d", "a === b && c !== d">>}

\* the else part of a conditional: none, else, @else
ElseParts == {"", " else { <i>f</i> }", " @else { <i>f</i> }", "else{<i>f</i>}"}

IfView(condition, else_part) == "@if (" \o condition \o ") { <b>t</b> }" \o else_part

ConditionalViews == {IfView(c[1], e) : c \in IfConditions, e \in ElseParts}

ConditionalInputs ==
    {[is_file |-> TRUE, files |-> <<RazorFile(<<"Home", "Index.cshtml">>, TRUE, v)>>] :
        v \in ConditionalViews}
    \cup {[is_file |-> FALSE,
           files |-> <<RazorFile(<<"Home", "Index.cshtml">>, TRUE, v), ReadmeFile>>] :
            v \in ConditionalViews}

InitConditionals ==
    /\ NoCalls
    /\ razor_input \in ConditionalInputs
    /\ razor_files = <<>>
    /\ razor_next = 0
    /\ components = <<>>
    /\ report = <<>>
    /\ razor_printed = <<>>
    /\ razor_pc = "new"
    /\ MapIdle /\ SnakeIdle /\ GenIdle /\ AssessIdle /\ ReadIdle /\ BackendIdle

SpecConditionals == InitConditionals /\ [][NextRazor]_vars

-----------------------------------------------------------------------------
(* RazorToJSXConverter: one run over a view that holds a code block        *)

MaxStatements == 2

\* statements of a code block, each with the const declaration it is
\* converted to ("" for a statement that is no var, string or int assignment)
BlockStatements ==
    {<<"var x = 1;", "const x = 1;">>, <<"int n = 2;", "const n = 2;">>,
     <<"Log(x);", "">>, <<"Layout = null;", "">>}

\* @{ s1 s2 ... }
CodeBlockOf(statements) ==
    "@{ " \o Join([i \in 1..Len(statements) |-> statements[i][1]], " ") \o " }"

StatementSeqs == UNION {[1..n -> BlockStatements] : n \in 1..MaxStatements}

CodeBlockInputs ==
    {[is_file |-> TRUE,
      files |-> <<RazorFile(<<"Home", "Index.cshtml">>, TRUE, CodeBlockOf(ss))>>] :
        ss \in StatementSeqs}
    \cup {[is_file |-> FALSE,
           files |-> <<RazorFile(<<"Home", "Index.cshtml">>, TRUE, CodeBlockOf(ss)),
                       ReadmeFile>>] :
            ss \in StatementSeqs}

InitCodeBlocks ==
    /\ NoCalls
    /\ razor_input \in CodeBlockInputs
    /\ razor_files = <<>>
    /\ razor_next = 0
    /\ components = <<>>
    /\ report = <<>>
    /\ razor_printed = <<>>
    /\ razor_pc = "new"
    /\ MapIdle /\ SnakeIdle /\ GenIdle /\ AssessIdle /\ ReadIdle /\ BackendIdle

SpecCodeBlocks == InitCodeBlocks /\ [][NextRazor]_vars

-----------------------------------------------------------------------------
(* MigrationGenerator: one generate() over a class of one annotated field  *)

MaxAnnotations == 2

\* the annotations a field may carry, as written between the brackets
AnnotationTexts == {"Key", "Required", "MaxLength(50)", "ForeignKey(\"Customer\")"}

AnnotationSeqs == UNION {[1..n -> AnnotationTexts] : n \in 0..MaxAnnotations}

\* [A1] ... [Ak] public int Value { get; set; }
AnnotatedField(annotations) ==
    [i \in 1..Len(annotations) |-> "[" \o annotations[i] \o "]"] \o FieldOf("int", "Value")

AnnotatedTrees ==
    {<<SourceFile("Models/Order.cs", SmallSize, TRUE,
                  ClassText("Order", <<AnnotatedField(annotations)>>))>> :
        annotations \in AnnotationSeqs}

InitAnnotations ==
    /\ NoCalls
    /\ gen_tree \in AnnotatedTrees
    /\ framework_arg \in FrameworkArgs
    /\ target_framework = ""
    /\ models = <<>>
    /\ models_py = <<>>
    /\ migration_guide = <<>>
    /\ gen_pc = "new"
    /\ MapIdle /\ SnakeIdle /\ AssessIdle /\ ReadIdle /\ RazorIdle /\ BackendIdle

SpecAnnotations == InitAnnotations /\ [][NextGen]_vars

-----------------------------------------------------------------------------
(* Claims on the migration generator                                       *)

\* the generate() run has passed _scan_models / has written models.py
Scanned == gen_pc \in {"scanned", "written", "done"}
Written == gen_pc \in {"written", "done"}

\* a line of a class body: indented by exactly four spaces
IsBodyLine(l) == Len(l) > 4 /\ SubSeq(l, 1, 4) = "    " /\ Ch(l, 5) # " "

\* a body line that assigns a column (sqlalchemy) or a model field (django)
IsFieldLine(l) ==
    IsBodyLine(l) /\ (IsSubstring(" = Column(", l) \/ IsSubstring(" = models.", l))

\* a body line that assigns a relationship
IsRelationshipLine(l) == IsBodyLine(l) /\ IsSubstring(" = relationship(", l)

\* the attribute a body line assigns: its text between the indent and " = "
LineName(l) ==
    LET eq == SetMin({i \in 1..Len(l) : MatchesAt(" = ", l, i)})
    IN  SubSeq(l, 5, eq - 1)

NamesOf(lines) == [i \in 1..Len(lines) |-> LineName(lines[i])]
FieldLineNames(lines) == NamesOf(SelectSeq(lines, IsFieldLine))
RelationshipLineNames(lines) == NamesOf(SelectSeq(lines, IsRelationshipLine))

\* the properties of a model that the target profile renders: the django
\* profile leaves out a key property named id
Rendered(props) ==
    IF target_framework = "sqlalchemy" THEN props
    ELSE SelectSeq(props, LAMBDA p : ~(p.is_key /\ Lower(p.name) = "id"))

\* the snake-case names of the rendered properties, model after model
DiscoveredFieldNames ==
    Flatten([k \in 1..Len(models) |->
        [i \in 1..Len(Rendered(models[k].properties)) |->
            _to_snake_case(Rendered(models[k].properties)[i].name)]])

\* the snake-case names of the discovered relationships, model after model
DiscoveredRelationshipNames ==
    Flatten([k \in 1..Len(models) |->
        [i \in 1..Len(models[k].relationships) |->
            _to_snake_case(models[k].relationships[i].property_name)]])

\* s can be obtained from t by leaving elements out
RECURSIVE IsSubsequence(_, _)
IsSubsequence(s, t) ==
    IF s = <<>> THEN TRUE
    ELSE IF t = <<>> THEN FALSE
    ELSE IF Head(s) = Head(t) THEN IsSubsequence(Tail(s), Tail(t))
    ELSE IsSubsequence(s, Tail(t))

\* C4: under either profile the field lines of models.py are, one for one and
\* in the same order, the rendered properties in the order they were
\* discovered (so each field's line comes strictly before the line of every
\* field discovered after it); the relationship lines that are written keep
\* the order of the discovered relationships, and under sqlalchemy every
\* discovered relationship has its line.
C4_OrderPreserved ==
    Written =>
        /\ FieldLineNames(models_py) = DiscoveredFieldNames
        /\ IsSubsequence(RelationshipLineNames(models_py), DiscoveredRelationshipNames)
        /\ target_framework = "sqlalchemy" =>
              RelationshipLineNames(models_py) = DiscoveredRelationshipNames

\* a class with two columns and two relationships has been written
C4_Witness ==
    /\ Written
    /\ target_framework = "sqlalchemy"
    /\ gen_tree[1].content = ClassText("Order", <<DeclCustomer, DeclItems, DeclTotal>>)
    /\ FieldLineNames(models_py) = <<"customer", "total">>
    /\ RelationshipLineNames(models_py) = <<"items", "customer">>

\* the names of the classes declared in a text: the words after "class"
ClassNamesIn(content) ==
    {Tok(content, i + 1) : i \in {j \in 1..Len(content) : content[j] = "class"}}

\* C5: a source file larger than the 1 MiB ceiling contributes no model to
\* the migration generator: after the scan no model carries the name of a
\* class declared in such a file.
C5_OversizedContributesNothing ==
    Scanned =>
        \A i \in DOMAIN gen_tree :
            gen_tree[i].size > MAX_FILE_SIZE_BYTES =>
                \A k \in DOMAIN models :
                    models[k].name \notin ClassNamesIn(gen_tree[i].content)

\* the positions in a text of get/set fields of the entity type Customer
CustomerFieldsAt(content) ==
    {p \in 1..Len(content) :
        /\ content[p] = "public" /\ Tok(content, p + 1) = "Customer"
        /\ IsWord(Tok(content, p + 2))
        /\ Tok(content, p + 3) = "{" /\ Tok(content, p + 4) = "get;"
        /\ Tok(content, p + 5) = "set;" /\ Tok(content, p + 6) = "}"}

\* the relationship records of model m for the property named n
RelationshipsNamed(m, n) ==
    SelectSeq(m.relationships, LAMBDA r : r.property_name = n)

\* the .cs files that declare the class of model m
FilesOf(m) ==
    {i \in DOMAIN gen_tree :
        EndsWith(gen_tree[i].path, ".cs") /\ m.name \in ClassNamesIn(gen_tree[i].content)}

\* C7: a get/set field of the bare entity type Customer whose name ends with
\* 'Id' gives no relationship record; the fields of that type with another
\* name give one record each, many_to_one with related_model Customer.
C7_IdSuffixExcluded ==
    Scanned =>
        \A k \in DOMAIN models : \A i \in FilesOf(models[k]) :
            \A p \in CustomerFieldsAt(gen_tree[i].content) :
                LET n == gen_tree[i].content[p + 2]
                    same == {q \in CustomerFieldsAt(gen_tree[i].content) :
                                gen_tree[i].content[q + 2] = n}
                    recs == RelationshipsNamed(models[k], n)
                IN  IF EndsWith(n, "Id") THEN recs = <<>>
                    ELSE /\ Len(recs) = Cardinality(same)
                         /\ \A j \in DOMAIN recs :
                               /\ recs[j].type = "many_to_one"
                               /\ recs[j].related_model = "Customer"

\* a class with both a Customer BuyerId and a Customer Customer field has
\* been scanned: one record, for Customer
C7_Witness ==
    /\ Scanned
    /\ gen_tree[1].content = ClassText("Order", <<DeclBuyerId, DeclCustomer>>)
    /\ Len(models) = 1
    /\ models[1].relationships =
          <<[type |-> "many_to_one", related_model |-> "Customer",
             property_name |-> "Customer"]>>

\* the body lines of models.py that assign a field or a relationship
AssignmentLines == SelectSeq(models_py, LAMBDA l : IsFieldLine(l) \/ IsRelationshipLine(l))

\* C9: for the class Order with Id ([Key] int), Total (decimal) and Customer
\* (Customer) the generator finds a key column Id, a Numeric column Total and
\* exactly one relationship record (many_to_one to Customer), and the text
\* written for the entity has three field lines in the order Id, Total,
\* Customer followed by exactly one relationship line.
C9_OrderEndToEnd ==
    (Written /\ gen_tree[1].content = OrderExample) =>
        /\ Len(models) = 1
        /\ [i \in 1..Len(models[1].properties) |-> models[1].properties[i].name]
              = <<"Id", "Total", "Customer">>
        /\ models[1].properties[1].is_key
        /\ _map_type(models[1].properties[2].csharp_type)[2] = "Numeric"
        /\ models[1].relationships =
              <<[type |-> "many_to_one", related_model |-> "Customer",
                 property_name |-> "Customer"]>>
        /\ FieldLineNames(models_py) = <<"id", "total", "customer">>
        /\ Len(RelationshipLineNames(models_py)) = 1
        /\ Len(AssignmentLines) = 4 /\ IsRelationshipLine(AssignmentLines[4])

\* the example class has been written under the sqlalchemy profile
C9_Witness ==
    /\ Written
    /\ gen_tree[1].content = OrderExample
    /\ target_framework = "sqlalchemy"
    /\ FieldLineNames(models_py) = <<"id", "total", "customer">>
    /\ RelationshipLineNames(models_py) = <<"customer">>

-----------------------------------------------------------------------------
(* Claims on the assessor                                                  *)

\* the 'Skipping large file' lines printed for the file at a path
LargeFileLines(path) ==
    SelectSeq(diagnostics,
              LAMBDA d : d.kind = "Skipping large file" /\ d.path = PathText(path))

\* C6: in one assess() run every file larger than the 1 MiB ceiling gets
\* exactly one 'Skipping large file' diagnostic, whatever directories and
\* glob patterns it falls under.
C6_OneDiagnosticPerOversizedFile ==
    assess_pc = "assessed" =>
        \A i \in DOMAIN project_tree :
            (project_tree[i].stat_error = NoError
             /\ project_tree[i].size > MAX_FILE_SIZE_BYTES)
                => Len(LargeFileLines(project_tree[i].path)) = 1

\* every character of the words of a text, in order
AllChars(words) == Join(words, "")

\* text is the whole decoding of the bytes: every decodable character, in
\* order, no undecodable one, split at the same separators
WholeText(text, bytes) ==
    /\ AllChars(text) = RemoveChar(AllChars(bytes), BadByte)
    /\ \A i \in DOMAIN text : text[i] # "" /\ ~IsSubstring(BadByte, text[i])
    /\ Len(text) = Cardinality({i \in DOMAIN bytes : RemoveChar(bytes[i], BadByte) # ""})

\* C10: _read_file never lets a permission or I/O error out: it returns, with
\* the empty text whenever stat, open or read fails, and with the whole
\* decoded text when nothing fails and the size is at most 1 MiB.
C10_ReadFileNeverPropagates ==
    read_pc = "returned" =>
        /\ read_result.raised = NoError
        /\ (\/ file_path.stat_error # NoError
            \/ file_path.open_error # NoError
            \/ file_path.read_error # NoError) => read_result.text = <<>>
        /\ (/\ file_path.stat_error = NoError
            /\ file_path.open_error = NoError
            /\ file_path.read_error = NoError
            /\ file_path.size <= MAX_FILE_SIZE_BYTES)
                => WholeText(read_result.text, file_path.content)

\* a call on a file of ordinary size that cannot be opened has returned the
\* empty text
C10_Witness ==
    /\ read_pc = "returned"
    /\ file_path.stat_error = NoError
    /\ file_path.size = SmallSize
    /\ file_path.open_error = "PermissionError"
    /\ read_result.raised = NoError
    /\ read_result.text = <<>>
    /\ Len(read_result.printed) = 1


-----------------------------------------------------------------------------
(* Claims on the Razor converter                                           *)

\* the parts of a text that a pattern matches
MatchedTexts(p, text) ==
    LET ms == FindAll(p, text, 1)
    IN  {SubSeq(text, ms[k].start, ms[k].end) : k \in DOMAIN ms}

\* the first group of each match of a pattern, without the space around it
MatchedGroups(p, text) ==
    LET ms == FindAll(p, text, 1)
    IN  {Strip(ms[k].groups[1]) : k \in DOMAIN ms}

\* the constructs of a view that the converter has no JSX for: each @for
\* loop, the name of each @section block and the code of each @{...} block
\* that holds no var, string or int assignment
Untransformed(content) ==
    MatchedTexts(ForPattern, content)
    \cup MatchedGroups(<<Lit("@section"), Spaces1>> \o WordGroup(1) \o <<Spaces0, Lit("{")>>,
                       content)
    \cup {code \in MatchedGroups(<<Lit("@{")>> \o NotGroup1(1, {"}"}) \o <<Lit("}")>>, content) :
            FindAll(AssignmentPattern, code, 1) = <<>>}

\* the views of the input that were written to the component file at a path
ViewsWrittenTo(path) ==
    {k \in DOMAIN razor_input.files :
        LET file == razor_input.files[k]
        IN  /\ EndsWith(FileName(file.path), ".cshtml")
            /\ file.readable
            /\ path = IF razor_input.is_file THEN WithSuffixJsx(<<FileName(file.path)>>)
                      ELSE WithSuffixJsx(file.path)}

\* C8: when the converter has ended, every construct it cannot transform (an
\* @for loop, an @section block, a complex @{...} code block) of a converted
\* view is, as it was written in the view, part of the text of the view's
\* component, and part of a line of the conversion report.
C8_UntransformedKeptAndReported ==
    razor_pc = "done" =>
        \A c \in DOMAIN components : \A k \in ViewsWrittenTo(components[c].path) :
            \A construct \in Untransformed(DecodeText(razor_input.files[k].content)) :
                /\ IsSubstring(construct, components[c].text)
                /\ \E l \in DOMAIN report : IsSubstring(construct, report[l])

\* a directory whose Home/Index.cshtml holds an @for loop has been converted
\* and the report has been written: the component holds the marker comment
\* of the loop
C8_Witness ==
    /\ razor_pc = "done"
    /\ ~razor_input.is_file
    /\ report # <<>>
    /\ \E c \in DOMAIN components :
          /\ components[c].path = <<"Home", "Index.jsx">>
          /\ \E k \in ViewsWrittenTo(components[c].path) :
                razor_input.files[k].content = ForLoopView
          /\ IsSubstring("TODO: Convert {for} loop to JSX", components[c].text)

-----------------------------------------------------------------------------
(* Claims on errors, phases and the rule tables                            *)

\* generate() has ended, by returning or by an exception, in a generator
\* that was constructed
GenerateEnded ==
    /\ gen_pc \in {"done", "raised"}
    /\ target_framework \in {"sqlalchemy", "django"}

\* the files of the tree that can be read
ReadableFiles == SelectSeq(gen_tree, LAMBDA f : f.readable)

\* C11: an error on one source file never aborts generate(): when it has
\* ended, the models of every readable file have been recorded and models.py
\* and MIGRATION_GUIDE.md have been written.
C11_FileErrorNeverAborts ==
    GenerateEnded =>
        /\ models = ScanFrom(ReadableFiles, 1).models
        /\ models_py # <<>>
        /\ migration_guide # <<>>

\* generate() has ended over a tree whose first file cannot be read and whose
\* last file holds a class
C11_Witness ==
    /\ GenerateEnded
    /\ Len(gen_tree) = 4
    /\ ~gen_tree[1].readable
    /\ gen_tree[4].readable

-----------------------------------------------------------------------------
(* Both tools given a target profile: a MigrationGenerator is constructed   *)
(* and run while a BackendInitializer is constructed and run                *)

\* the trees whose files can all be read
ProfileTrees == {t \in MixedTrees : t[1].readable /\ t[1].size = SmallSize}

InitProfiles ==
    /\ NoCalls
    /\ gen_tree \in ProfileTrees
    /\ framework_arg \in FrameworkArgs
    /\ target_framework = ""
    /\ models = <<>>
    /\ models_py = <<>>
    /\ migration_guide = <<>>
    /\ gen_pc = "new"
    /\ backend_args \in [framework : BackendFrameworks, db_type : BackendDbTypes]
    /\ backend_framework = ""
    /\ backend_db_type = ""
    /\ backend_created = <<>>
    /\ requirements_txt = <<>>
    /\ backend_pc = "new"
    /\ MapIdle /\ SnakeIdle /\ AssessIdle /\ ReadIdle /\ RazorIdle

NextProfiles == NextGen \/ NextBackend

SpecProfiles == InitProfiles /\ [][NextProfiles]_vars

\* the constructor of MigrationGenerator has run on a name that is no profile
GeneratorProfileInvalid ==
    /\ gen_pc \notin {"idle", "new"}
    /\ target_framework \notin {"sqlalchemy", "django"}

\* initialize() of BackendInitializer has reached its if/elif chain with a
\* name that is no framework
BackendFrameworkInvalid ==
    /\ backend_pc \notin {"idle", "new", "constructed"}
    /\ backend_framework \notin {"fastapi", "flask", "django"}

\* C12: an invalid target profile is fatal before any processing starts and
\* leaves no output: a MigrationGenerator constructed with a framework that,
\* lower-cased, is neither sqlalchemy nor django raises with no model read
\* and no file written, and initialize() of a BackendInitializer whose
\* framework is none of fastapi, flask, django raises with no directory
\* made and no file written.
C12_InvalidProfileFatalNoOutput ==
    /\ GeneratorProfileInvalid =>
          /\ gen_pc = "raised"
          /\ models = <<>>
          /\ models_py = <<>>
          /\ migration_guide = <<>>
    /\ BackendFrameworkInvalid =>
          /\ backend_pc = "raised"
          /\ backend_created = <<>>
          /\ requirements_txt = <<>>

C12_Witness ==
    /\ GeneratorProfileInvalid
    /\ framework_arg = "flask"
    /\ BackendFrameworkInvalid
    /\ backend_args.framework = "express"
    /\ backend_pc = "raised"

-----------------------------------------------------------------------------
(* DotNetAssessor: one assess() over a project of one controller           *)

MaxActions == 2

\* the attribute written before an action; "" for none
VerbMarkers == {"", "[HttpGet]", "[HttpPost]", "[HttpPut]", "[HttpDelete]"}

\* one name is part of the other
ActionNames == {"Get", "GetAll"}

ActionText(marker, action) ==
    (IF marker = "" THEN <<>> ELSE <<marker>>)
        \o <<"public", "IActionResult", action \o "()", "{", "}">>

ControllerText(actions) ==
    <<"public", "class", "OrdersController", ":", "Controller", "{">>
        \o Flatten([i \in 1..Len(actions) |-> ActionText(actions[i][1], actions[i][2])])
        \o <<"}">>

ControllerTexts ==
    {ControllerText(actions) :
        actions \in UNION {[1..n -> VerbMarkers \X ActionNames] : n \in 0..MaxActions}}

InitRoutes ==
    /\ NoCalls
    /\ project_tree \in
          {<<ProjectFile(<<"Controllers", "OrdersController.cs">>, text)>> :
              text \in ControllerTexts}
    /\ inventory = None
    /\ diagnostics = <<>>
    /\ assess_pc = "new"
    /\ MapIdle /\ SnakeIdle /\ GenIdle /\ ReadIdle /\ RazorIdle /\ BackendIdle

SpecRoutes == InitRoutes /\ [][NextAssess]_vars

\* the route records of the inventory once _scan_controllers has run
ScannedRoutes ==
    IF assess_pc \in {"idle", "new", "constructed", "_detect_project_type"}
    THEN <<>> ELSE inventory.routes

\* the text of the one controller of the project
ControllerContent == IF project_tree = <<>> THEN <<>> ELSE project_tree[1].content

PostMatches(action) == VerbMarked(ControllerContent, "[HttpPost", action)
PutMatches(action) == VerbMarked(ControllerContent, "[HttpPut", action)
DeleteMatches(action) == VerbMarked(ControllerContent, "[HttpDelete", action)

\* C13: every route record produced by _extract_routes has http_method in
\* {GET, POST, PUT, DELETE}, and an action for which none of the HttpPost,
\* HttpPut, HttpDelete marker patterns matches in the controller text is
\* given GET.
C13_VerbInSetAndGetByDefault ==
    \A i \in DOMAIN ScannedRoutes :
        /\ ScannedRoutes[i].http_method \in {"GET", "POST", "PUT", "DELETE"}
        /\ (~PostMatches(ScannedRoutes[i].action)
               /\ ~PutMatches(ScannedRoutes[i].action)
               /\ ~DeleteMatches(ScannedRoutes[i].action))
              => ScannedRoutes[i].http_method = "GET"

\* an unmarked action and one marked [HttpGet], neither reached by a marker
C13_Witness ==
    /\ Len(ScannedRoutes) = 2
    /\ ControllerContent = ControllerText(<<<<"", "GetAll">>, <<"[HttpGet]", "Get">>>>)
    /\ \A i \in 1..2 : ScannedRoutes[i].http_method = "GET"

\* C14: the marker patterns are tried in the order POST, PUT, DELETE over
\* the whole controller text and the first that matches decides the verb:
\* an action for which the POST pattern matches is recorded as POST whatever
\* else matches, and one for which PUT and DELETE match but POST does not is
\* recorded as PUT.
C14_FirstMatchingMarkerDecides ==
    \A i \in DOMAIN ScannedRoutes :
        LET r == ScannedRoutes[i]
        IN  /\ PostMatches(r.action) => r.http_method = "POST"
            /\ (~PostMatches(r.action) /\ PutMatches(r.action)) => r.http_method = "PUT"
            /\ (~PostMatches(r.action) /\ ~PutMatches(r.action) /\ DeleteMatches(r.action))
                  => r.http_method = "DELETE"

\* an action under [HttpDelete] that the POST pattern reaches as well
C14_Witness ==
    /\ Len(ScannedRoutes) = 2
    /\ ControllerContent = ControllerText(<<<<"[HttpPost]", "Get">>, <<"[HttpDelete]", "GetAll">>>>)
    /\ PostMatches("GetAll") /\ DeleteMatches("GetAll")
    /\ ScannedRoutes[2].http_method = "POST"

-----------------------------------------------------------------------------
(* DotNetAssessor: one assess() over a project of one project file         *)

MaxPackages == 2

\* package names: table names as written, in other letter-casing and inside
\* longer names, names holding two table names, and names holding none
PackageNames ==
    {"Newtonsoft.Json", "newtonsoft.json", "Microsoft.EntityFrameworkCore.SqlServer",
     "Serilog.Sinks.Console", "Dapper.AutoMapper", "Hangfire.SignalR", "MEDIATR",
     "xunit", "Moq"}

PackageReference(package_name) ==
    <<"<PackageReference", "Include=\"" \o package_name \o "\"", "Version=\"1.0.0\"", "/>">>

CsprojText(package_names) ==
    <<"<Project", "Sdk=\"Microsoft.NET.Sdk\">">>
        \o Flatten([i \in 1..Len(package_names) |-> PackageReference(package_names[i])])
        \o <<"</Project>">>

InitPackages ==
    /\ NoCalls
    /\ project_tree \in
          {<<ProjectFile(<<"App.csproj">>, CsprojText(package_names))>> :
              package_names \in UNION {[1..n -> PackageNames] : n \in 0..MaxPackages}}
    /\ inventory = None
    /\ diagnostics = <<>>
    /\ assess_pc = "new"
    /\ MapIdle /\ SnakeIdle /\ GenIdle /\ ReadIdle /\ RazorIdle /\ BackendIdle

SpecPackages == InitPackages /\ [][NextAssess]_vars

\* the package entries of the inventory once _scan_dependencies has run
ScannedPackages ==
    IF assess_pc \in {"idle", "new"} THEN <<>> ELSE inventory.third_party_packages

\* entry i of the table names a part of the package name, letter-casing aside
TableHit(i, package_name) == IsSubstring(Lower(EQUIVALENTS[i][1]), Lower(package_name))

\* C15: every package entry recorded by _scan_dependencies has a non-empty
\* python_equivalent: the suggestion of the first table entry, in table
\* order, whose name is a case-insensitive substring of the package name,
\* and "Research required" when no entry matches.
C15_EquivalentNeverEmpty ==
    \A n \in DOMAIN ScannedPackages :
        LET e == ScannedPackages[n]
        IN  /\ e.python_equivalent # ""
            /\ \/ \E i \in DOMAIN EQUIVALENTS :
                     /\ TableHit(i, e.name)
                     /\ \A k \in 1..(i - 1) : ~TableHit(k, e.name)
                     /\ e.python_equivalent = EQUIVALENTS[i][2]
               \/ /\ \A i \in DOMAIN EQUIVALENTS : ~TableHit(i, e.name)
                  /\ e.python_equivalent = "Research required"

\* a package whose name holds two table names, the later one first, next to
\* a package the table does not know
C15_Witness ==
    /\ Len(ScannedPackages) = 2
    /\ ScannedPackages[1].name = "Dapper.AutoMapper"
    /\ ScannedPackages[1].python_equivalent = "pydantic or dataclasses"
    /\ ScannedPackages[2].name = "xunit"
    /\ ScannedPackages[2].python_equivalent = "Research required"

-----------------------------------------------------------------------------
(* DotNetAssessor: one assess() over projects around the thresholds of     *)
(* _generate_recommendations                                               *)

\* a project of c controllers, v views, x database contexts and a Startup.cs
SizedProject(c, v, x, startup) ==
    [i \in 1..c |->
        ProjectFile(<<"Controllers", "C" \o NatText(i) \o "Controller.cs">>,
                    <<"public", "class", "C" \o NatText(i) \o "Controller", ":",
                      "Controller", "{", "}">>)]
    \o [i \in 1..v |->
        ProjectFile(<<"Views", "Home", "V" \o NatText(i) \o ".cshtml">>, <<"<h1>Title</h1>">>)]
    \o [i \in 1..x |->
        ProjectFile(<<"Data", "Db" \o NatText(i) \o "Context.cs">>,
                    <<"public", "class", "Db" \o NatText(i) \o "Context", ":",
                      "DbContext", "{", "}">>)]
    \o <<ProjectFile(<<"Startup.cs">>, startup)>>

\* Startup.cs naming each scheme _detect_authentication knows, and none
StartupTexts ==
    {<<"public", "class", "Startup", "{", "services.AddIdentity<User,", "Role>();", "}">>,
     <<"public", "class", "Startup", "{", "services.AddAuthentication()",
       ".AddJwtBearer(options", "=>", "{", "});", "}">>,
     <<"public", "class", "Startup", "{", "services.AddAuthentication()",
       ".AddCookie();", "}">>,
     <<"public", "class", "Startup", "{", "}">>}

ControllerCounts == {0, 20, 21}
ViewCounts == {0, 15, 16}
ContextCounts == {0, 1, 2}

InitRecommend ==
    /\ NoCalls
    /\ project_tree \in
          {SizedProject(c, v, x, startup) :
              c \in ControllerCounts, v \in ViewCounts, x \in ContextCounts,
              startup \in StartupTexts}
    /\ inventory = None
    /\ diagnostics = <<>>
    /\ assess_pc = "new"
    /\ MapIdle /\ SnakeIdle /\ GenIdle /\ ReadIdle /\ RazorIdle /\ BackendIdle

SpecRecommend == InitRecommend /\ [][NextAssess]_vars

\* the recommendations of a category, once assess() has returned
RecommendedFor(category) ==
    IF assess_pc # "assessed" THEN {}
    ELSE {inventory.recommendations[i].recommendation :
             i \in {k \in DOMAIN inventory.recommendations :
                       inventory.recommendations[k].category = category}}

EntriesFor(category) ==
    IF assess_pc # "assessed" THEN 0
    ELSE Cardinality({k \in DOMAIN inventory.recommendations :
                         inventory.recommendations[k].category = category})

\* C16: after assess() the recommendations hold exactly one 'Backend
\* Framework' entry, Django REST Framework iff there are more than 20
\* controllers and FastAPI otherwise; exactly one 'State Management' entry,
\* Redux Toolkit or Zustand iff there are more than 15 views; an 'ORM'
\* entry iff a database context was found; and an 'Authentication' entry
\* iff the detected scheme is ASP.NET Identity or JWT Bearer.
C16_RecommendationsFromInventory ==
    assess_pc = "assessed" =>
        /\ EntriesFor("Backend Framework") = 1
        /\ RecommendedFor("Backend Framework") =
              IF Len(inventory.controllers) > 20
              THEN {"Django REST Framework"} ELSE {"FastAPI"}
        /\ EntriesFor("State Management") = 1
        /\ (RecommendedFor("State Management") = {"Redux Toolkit or Zustand"})
              <=> (Len(inventory.views) > 15)
        /\ (EntriesFor("ORM") >= 1) <=> (Len(inventory.database_contexts) >= 1)
        /\ (EntriesFor("Authentication") >= 1)
              <=> (inventory.authentication \in {"ASP.NET Identity", "JWT Bearer"})
        /\ \A k \in DOMAIN inventory.recommendations :
              inventory.recommendations[k].category \in
                  {"Backend Framework", "State Management", "ORM", "Authentication"}

\* twenty controllers, one below the threshold, and sixteen views, one above
C16_Witness ==
    /\ assess_pc = "assessed"
    /\ Len(inventory.controllers) = 20
    /\ RecommendedFor("Backend Framework") = {"FastAPI"}
    /\ Len(inventory.views) = 16
    /\ RecommendedFor("State Management") = {"Redux Toolkit or Zustand"}
    /\ Len(inventory.database_contexts) = 2
    /\ EntriesFor("ORM") = 1
    /\ inventory.authentication = "ASP.NET Identity"
    /\ EntriesFor("Authentication") = 1

\* line j of models.py belongs to the same class as line i before it: no
\* class statement lies between them
SameEntity(i, j) == \A k \in (i + 1)..j : ~MatchesAt("class ", models_py[k], 1)

\* C17: under the sqlalchemy and the django profile every relationship
\* record of an entity is rendered as a line of that entity's output, and
\* the line comes after all of the entity's field lines.
C17_RelationshipsAfterFields ==
    Written =>
        /\ RelationshipLineNames(models_py) = DiscoveredRelationshipNames
        /\ \A i, j \in DOMAIN models_py :
              (i < j /\ IsRelationshipLine(models_py[i]) /\ IsFieldLine(models_py[j]))
                  => ~SameEntity(i, j)

\* models.py written under the django profile for a class with a reference
\* and a collection
C17_Witness ==
    /\ Written
    /\ target_framework = "django"
    /\ gen_tree[1].content = ClassText("Order", <<DeclTotal, DeclCustomer, DeclItems>>)
    /\ DiscoveredRelationshipNames = <<"items", "customer">>

-----------------------------------------------------------------------------
(* The three tools run side by side: one generate(), one assess() and one  *)
(* run of the converter, each a process of its own                         *)

\* a models directory whose first file may fail to be read
PhaseTrees ==
    {t \in MixedTrees : t[1].size = SmallSize /\ t[4].content = ClassText("Customer", <<DeclName>>)}

\* one view given as a file, a directory without views, and a directory of
\* two views next to another file, its first view unreadable
PhaseInputs ==
    {[is_file |-> TRUE, files |-> <<RazorFile(<<"Home", "Index.cshtml">>, TRUE, "")>>],
     [is_file |-> FALSE, files |-> <<ReadmeFile>>],
     [is_file |-> FALSE,
      files |-> <<RazorFile(<<"Shared", "_order-row.cshtml">>, FALSE, CodeBlockView),
                  ReadmeFile,
                  RazorFile(<<"Home", "Index.cshtml">>, TRUE, "")>>]}

InitPhases ==
    /\ NoCalls
    /\ gen_tree \in PhaseTrees
    /\ framework_arg \in {"sqlalchemy", "Django"}
    /\ target_framework = ""
    /\ models = <<>>
    /\ models_py = <<>>
    /\ migration_guide = <<>>
    /\ gen_pc = "new"
    /\ project_tree = ProjectFiles
    /\ inventory = None
    /\ diagnostics = <<>>
    /\ assess_pc = "new"
    /\ razor_input \in PhaseInputs
    /\ razor_files = <<>>
    /\ razor_next = 0
    /\ components = <<>>
    /\ report = <<>>
    /\ razor_printed = <<>>
    /\ razor_pc = "new"
    /\ MapIdle /\ SnakeIdle /\ ReadIdle /\ BackendIdle

NextPhases == NextGen \/ NextAssess \/ NextRazor

SpecPhases == InitPhases /\ [][NextPhases]_vars

\* the loop of convert_directory has taken up file i
Attempted(i) ==
    \E k \in DOMAIN razor_printed :
        razor_printed[k] = RazorLine("Converting", FileName(razor_files[i].path))

RecommendationsComputed ==
    /\ assess_pc \notin {"idle", "new"}
    /\ inventory.recommendations # <<>>

\* C18: within a run the phases follow one another: models.py holds
\* nothing before every source file has been scanned, MIGRATION_GUIDE.md
\* is written only after models.py is complete, the conversion report is
\* written only after every view file has been attempted, and the
\* recommendations are computed only after all the scans and the
\* detection of the authentication have finished.
C18_PhaseOrder ==
    /\ models_py # <<>> =>
          /\ gen_pc \in {"written", "done"}
          /\ models = ScanFrom(gen_tree, 1).models
    /\ migration_guide # <<>> =>
          /\ gen_pc = "done"
          /\ models_py = IF target_framework = "sqlalchemy"
                         THEN _generate_sqlalchemy_models(models)
                         ELSE _generate_django_models(models)
    /\ report # <<>> =>
          /\ razor_next > Len(razor_files)
          /\ \A i \in DOMAIN razor_files : Attempted(i)
    /\ RecommendationsComputed =>
          /\ assess_pc = "assessed"
          /\ inventory.project_type # None
          /\ inventory.authentication # None

\* the three runs have ended: the guide and the report are written and the
\* recommendations are computed
C18_Witness ==
    /\ gen_pc = "done"
    /\ migration_guide # <<>>
    /\ razor_pc = "done"
    /\ Len(razor_files) = 2
    /\ report # <<>>
    /\ RecommendationsComputed

-----------------------------------------------------------------------------
(* MigrationGenerator: one generate() over a class of primitive fields     *)

\* the primitive type names of TYPE_MAPPINGS
TablePrimitives ==
    {"string", "int", "long", "bool", "DateTime", "decimal", "float", "double", "Guid",
     "short", "byte"}

\* classes of one field, of a primitive type or of the type Customer, alone
\* or before a reference to a Customer
PrimitiveTrees ==
    {<<SourceFile("Models/Order.cs", SmallSize, TRUE,
                  ClassText("Order", <<FieldOf(t, n)>> \o rest))>> :
        t \in TablePrimitives \cup {"Customer"}, n \in {"Value", "RefId"},
        rest \in {<<>>, <<DeclCustomer>>}}

InitPrimitives ==
    /\ NoCalls
    /\ gen_tree \in PrimitiveTrees
    /\ framework_arg \in FrameworkArgs
    /\ target_framework = ""
    /\ models = <<>>
    /\ models_py = <<>>
    /\ migration_guide = <<>>
    /\ gen_pc = "new"
    /\ MapIdle /\ SnakeIdle /\ AssessIdle /\ ReadIdle /\ RazorIdle /\ BackendIdle

SpecPrimitives == InitPrimitives /\ [][NextGen]_vars

\* the relationship records of all models
AllRelationships == Flatten([k \in 1..Len(models) |-> models[k].relationships])

\* C19: no get/set field whose type is a primitive of the type-mapping
\* table (string, int, long, bool, DateTime, decimal, float, double, Guid,
\* short, byte) yields a relationship record: every many_to_one record
\* names a type that is none of these.
C19_NoRelationshipFromPrimitive ==
    Scanned =>
        \A i \in DOMAIN AllRelationships :
            AllRelationships[i].related_model \notin TablePrimitives

\* a class whose one field is of type long has been scanned
C19_Witness ==
    /\ Scanned
    /\ gen_tree[1].content = ClassText("Order", <<FieldOf("long", "Value")>>)
    /\ Len(models) = 1

\* what the specific rules make of the constructs of a view: {props.P} for
\* each @Model.P, and for each call a rule of _convert_html_helpers matches
\* the replacement of that rule
SpecificRenderings(content) ==
    {"{props." \o g \o "}" : g \in MatchedGroups(<<Lit("@Model.")>> \o WordGroup(1), content)}
    \cup UNION {{ApplyRule(HtmlHelperRules[r], m) :
                    m \in MatchedTexts(HtmlHelperRules[r].p, content)} :
                r \in DOMAIN HtmlHelperRules}

\* C20: the specific rules take effect on the constructs of the input they
\* match: when the converter has ended, the component of a converted view
\* holds {props.P} for every @Model.P of the view and, for every @Html
\* helper call of the view that a helper rule matches, that rule's JSX
\* replacement; the generic @identifier rule has not altered them before.
C20_SpecificRulesTakeEffect ==
    razor_pc = "done" =>
        \A c \in DOMAIN components : \A k \in ViewsWrittenTo(components[c].path) :
            \A rendering \in SpecificRenderings(DecodeText(razor_input.files[k].content)) :
                IsSubstring(rendering, components[c].text)

\* a view holding @Model.Total has been converted: its component holds what
\* the generic rule made of it
C20_Witness ==
    /\ razor_pc = "done"
    /\ \E c \in DOMAIN components : \E k \in ViewsWrittenTo(components[c].path) :
          /\ razor_input.files[k].content = "<h1>@Model.Total</h1>"
          /\ SpecificRenderings("<h1>@Model.Total</h1>") = {"{props.Total}"}
          /\ IsSubstring("{Model}.Total", components[c].text)

\* a text without its spaces and line ends
Squeeze(s) == RemoveChar(RemoveChar(s, " "), "\n")

\* the component written for the one view of the input holds the text,
\* white space aside
ComponentHolds(text) ==
    \E c \in DOMAIN components :
        /\ ViewsWrittenTo(components[c].path) # {}
        /\ IsSubstring(Squeeze(text), Squeeze(components[c].text))

\* C21: a non-nested '@if (c) { A } else { B }' is rewritten into the
\* ternary '{(c) ? ( A ) : ( B )}' and a non-nested '@if (c) { A }' without
\* else into '{(c) && ( A )}', with == and != of c written === and !==.
C21_ConditionalsRewritten ==
    razor_pc = "done" =>
        \A c \in IfConditions :
            /\ razor_input.files[1].content = IfView(c[1], "")
                  => ComponentHolds("{(" \o c[2] \o ") && ( <b>t</b> )}")
            /\ razor_input.files[1].content \in {IfView(c[1], e) : e \in ElseParts \ {""}}
                  => ComponentHolds("{(" \o c[2] \o ") ? ( <b>t</b> ) : ( <i>f</i> )}")

\* a view with an else part has been converted
C21_Witness ==
    /\ razor_pc = "done"
    /\ razor_input.files[1].content = IfView("a == b", " else { <i>f</i> }")
    /\ ComponentHolds("{(a === b) && ( <b>t</b> )} else { <i>f</i> }")

\* the component written for the one view of the input holds the text as it is
ComponentHas(text) ==
    \E c \in DOMAIN components :
        /\ ViewsWrittenTo(components[c].path) # {}
        /\ IsSubstring(text, components[c].text)

\* C22: no statement of an @{ ... } code block is silently dropped: every
\* statement of the block is in the component either converted, as the
\* const declaration of a var, string or int assignment, or as it was
\* written, inside the 'TODO: Convert code block' marker comment; also when
\* the block mixes assignments with other statements.
C22_NoStatementDropped ==
    razor_pc = "done" =>
        \A ss \in StatementSeqs :
            razor_input.files[1].content = CodeBlockOf(ss) =>
                \A i \in DOMAIN ss :
                    \/ ss[i][2] # "" /\ ComponentHas(ss[i][2])
                    \/ /\ ComponentHas("TODO: Convert code block")
                       /\ ComponentHas(ss[i][1])

\* a block of an assignment and a call has been converted: the component
\* holds the declaration
C22_Witness ==
    /\ razor_pc = "done"
    /\ razor_input.files[1].content = "@{ var x = 1; Log(x); }"
    /\ ComponentHas("const x = 1;")

\* the annotations declared on the one field of the scanned class
DeclaredAnnotations ==
    CHOOSE annotations \in AnnotationSeqs :
        gen_tree[1].content = ClassText("Order", <<AnnotatedField(annotations)>>)

Declared(annotation) ==
    \E i \in DOMAIN DeclaredAnnotations : DeclaredAnnotations[i] = annotation

\* the PropertyInfo of that field
ValueProperty == models[1].properties[1]

\* C23: for a field declared after k >= 0 annotation blocks [A1] ... [Ak]
\* the annotation list of its PropertyInfo holds exactly A1..Ak in order
\* (the empty list for k = 0), and the key, required, foreign-key and
\* max-length flags reflect every one of the annotations, not only the one
\* nearest to the declaration.
C23_AllAnnotationsKept ==
    Scanned =>
        /\ Len(models) = 1
        /\ Len(models[1].properties) = 1
        /\ ValueProperty.annotations = DeclaredAnnotations
        /\ Declared("Key") => ValueProperty.is_key
        /\ Declared("Required") => ValueProperty.is_required
        /\ Declared("ForeignKey(\"Customer\")") =>
              ValueProperty.is_foreign_key /\ ValueProperty.foreign_table = "Customer"
        /\ Declared("MaxLength(50)") => ValueProperty.max_length = "50"

\* a field declared after [Key] [Required] has been scanned: the nearest
\* annotation is in its list
C23_Witness ==
    /\ Scanned
    /\ DeclaredAnnotations = <<"Key", "Required">>
    /\ Len(models) = 1
    /\ ValueProperty.annotations = <<"Required">>

\* the line of models.py that assigns the column of the field
ValueColumnLines == SelectSeq(models_py, LAMBDA l : IsFieldLine(l) /\ LineName(l) = "value")

\* C24: the key flag of a field is set only when it carries a Key
\* annotation: a field whose only annotation is ForeignKey("T") has is_key
\* false, and its sqlalchemy column has the foreign-key wrapping and no
\* primary_key=True.
C24_KeyOnlyFromKeyAnnotation ==
    /\ Scanned => (ValueProperty.is_key => Declared("Key"))
    /\ (Written /\ target_framework = "sqlalchemy"
            /\ DeclaredAnnotations = <<"ForeignKey(\"Customer\")">>) =>
          /\ Len(ValueColumnLines) = 1
          /\ IsSubstring("ForeignKey(\"customer.id\")", ValueColumnLines[1])
          /\ ~IsSubstring("primary_key=True", ValueColumnLines[1])

\* models.py written under sqlalchemy for a field whose only annotation is
\* ForeignKey("Customer"): the column has the foreign-key wrapping
C24_Witness ==
    /\ Written
    /\ target_framework = "sqlalchemy"
    /\ DeclaredAnnotations = <<"ForeignKey(\"Customer\")">>
    /\ Len(ValueColumnLines) = 1
    /\ IsSubstring("ForeignKey(\"customer.id\")", ValueColumnLines[1])

\* the names the header of models.py imports from sqlalchemy
ImportedNames ==
    UNION {{Strip(Split(From(models_py[k], Len("from sqlalchemy import ") + 1), ",")[i]) :
               i \in DOMAIN Split(From(models_py[k], Len("from sqlalchemy import ") + 1), ",")} :
           k \in {j \in DOMAIN models_py : MatchesAt("from sqlalchemy import ", models_py[j], 1)}}

\* the storage-type names _generate_sqlalchemy_column can emit: the name of
\* the storage type of each entry of TYPE_MAPPINGS, String and ForeignKey
EmittableNames ==
    {PrefixOf(TYPE_MAPPINGS[i].sa, WordChars) : i \in DOMAIN TYPE_MAPPINGS}
        \cup {"String", "ForeignKey"}

\* a line uses a name as an argument of Column(...)
UsesName(l, n) ==
    \E i \in 2..Len(l) :
        /\ MatchesAt(n, l, i)
        /\ Ch(l, i - 1) \in {"(", " "}
        /\ Ch(l, i + Len(n)) \in {",", ")", "("}

\* C25: every storage-type name that a column definition of models.py uses
\* (the storage type of a TYPE_MAPPINGS entry, String(n), ForeignKey) is
\* among the names the header at the top of models.py imports.
C25_EmittedTypesImported ==
    (Written /\ target_framework = "sqlalchemy") =>
        \A k \in DOMAIN models_py : \A n \in EmittableNames :
            (IsFieldLine(models_py[k]) /\ UsesName(models_py[k], n)) => n \in ImportedNames

\* models.py written for a field of type long: its column uses BigInteger
C25_Witness ==
    /\ Written
    /\ target_framework = "sqlalchemy"
    /\ gen_tree[1].content = ClassText("Order", <<FieldOf("long", "Value")>>)
    /\ "Integer" \in ImportedNames
    /\ \E k \in DOMAIN models_py : UsesName(models_py[k], "BigInteger")

-----------------------------------------------------------------------------
(* Repeated assessment: assess() called several times on one object        *)

\* a controller with n actions of one verb
ControllerOf(marker, n) == ControllerText([i \in 1..n |-> <<marker, "Get">>])

\* projects of two controllers of 0..MaxActions actions each, and the project
\* with one of its files oversized, at the ceiling, or failing to be read
ReassessTrees ==
    {<<ProjectFile(<<"Controllers", "OrdersController.cs">>, ControllerOf("[HttpPost]", n)),
       ProjectFile(<<"Controllers", "ItemsController.cs">>, ControllerOf("", m))>> :
        n \in 0..MaxActions, m \in 0..MaxActions}
    \cup {With(ProjectFiles, i, c) : i \in 0..(Len(ProjectFiles) - 1), c \in Conditions}

InitReassess ==
    /\ NoCalls
    /\ project_tree \in ReassessTrees
    /\ inventory = None
    /\ diagnostics = <<>>
    /\ assess_pc = "new"
    /\ MapIdle /\ SnakeIdle /\ GenIdle /\ ReadIdle /\ RazorIdle /\ BackendIdle

SpecReassess == InitReassess /\ [][NextReassess]_vars

\* a call of assess() is over: it has returned or raised
AssessOver == assess_pc \in {"assessed", "raised"}

RECURSIVE SumOfActions(_)
SumOfActions(controllers) ==
    IF controllers = <<>> THEN 0
    ELSE Head(controllers).actions + SumOfActions(Tail(controllers))

\* C26: after any sequence of assess() calls on one assessor, the inventory
\* holds as many routes as the 'actions' of its controllers add up to, the
\* 'actions' of each controller is the length of its own 'routes', and the
\* report's total_routes and total_controllers are the lengths of the two
\* lists.
C26_CountsAgree ==
    AssessOver =>
        /\ Len(inventory.routes) = SumOfActions(inventory.controllers)
        /\ \A i \in DOMAIN inventory.controllers :
              inventory.controllers[i].actions = Len(inventory.controllers[i].routes)
        /\ generate_report(inventory).summary.total_routes = Len(inventory.routes)
        /\ generate_report(inventory).summary.total_controllers
              = Len(inventory.controllers)

\* the second call over a project of two controllers with different numbers
\* of actions has returned
C26_Witness ==
    /\ assess_pc = "assessed"
    /\ assess_calls = 1
    /\ Len(inventory.controllers) = 4
    /\ inventory.controllers[1].actions = 2
    /\ inventory.controllers[2].actions = 1
    /\ generate_report(inventory).summary.total_routes = 6

-----------------------------------------------------------------------------
(* Repeated runs: generate() or assess() called again on the same object   *)

\* model directories of several files, the first of them readable or not
RepeatTrees == {t \in MixedTrees : t[1].size = SmallSize}

\* either tool is constructed and run, the other stays at rest
InitRepeat ==
    /\ NoCalls
    /\ \/ /\ gen_tree \in RepeatTrees
          /\ framework_arg \in {"sqlalchemy", "Django"}
          /\ target_framework = ""
          /\ models = <<>>
          /\ models_py = <<>>
          /\ migration_guide = <<>>
          /\ gen_pc = "new"
          /\ AssessIdle
       \/ /\ project_tree \in ReassessTrees
          /\ inventory = None
          /\ diagnostics = <<>>
          /\ assess_pc = "new"
          /\ GenIdle
    /\ MapIdle /\ SnakeIdle /\ ReadIdle /\ RazorIdle /\ BackendIdle

NextRepeat == NextRegenerate \/ NextReassess

SpecRepeat == InitRepeat /\ [][NextRepeat]_vars

\* what one scan of the tree finds
ModelsOfTree == ScanFrom(gen_tree, 1).models
ControllersOfTree ==
    Scan(GlobUnder(project_tree, "Controllers", ".cs"), ControllerEntries).entries
ModelsOfProject ==
    Scan(GlobUnder(project_tree, "Models", ".cs") \o GlobUnder(project_tree, "Entities", ".cs")
            \o GlobUnder(project_tree, "Domain", ".cs"), ModelEntries).entries
ViewsOfProject ==
    LET view_files == GlobUnder(project_tree, "Views", ".cshtml")
    IN  [i \in 1..Len(view_files) |-> ViewEntry(view_files[i])]

\* C27: a call of assess() on the same DotNetAssessor, or of generate() on
\* the same MigrationGenerator, over an unchanged tree leaves the inventory,
\* the model list and the files written as one call over the tree yields
\* them: no construct is recorded twice.
C27_RepeatedCallSame ==
    /\ gen_pc = "done" =>
          /\ models = ModelsOfTree
          /\ models_py = (IF target_framework = "sqlalchemy"
                          THEN _generate_sqlalchemy_models(ModelsOfTree)
                          ELSE _generate_django_models(ModelsOfTree))
          /\ migration_guide = _generate_migration_script(ModelsOfTree, target_framework)
    /\ assess_pc = "assessed" =>
          /\ inventory.controllers = ControllersOfTree
          /\ inventory.routes = Flatten([i \in 1..Len(ControllersOfTree) |->
                                            ControllersOfTree[i].routes])
          /\ inventory.models = ModelsOfProject
          /\ inventory.views = ViewsOfProject

\* the second call of generate() has returned over a tree with models, or
\* the second call of assess() over a project with a controller and a view
C27_Witness ==
    \/ /\ gen_pc = "done" /\ gen_calls = 1 /\ ModelsOfTree # <<>>
    \/ /\ assess_pc = "assessed" /\ assess_calls = 1
       /\ ControllersOfTree # <<>> /\ ViewsOfProject # <<>>

-----------------------------------------------------------------------------
(* Authentication detection over projects of two source files              *)

\* the texts of Startup.cs, and a class deriving from IdentityUser
SchemeTexts ==
    StartupTexts \cup
    {<<"public", "class", "User", ":", "IdentityUser", "{", "}">>}

\* one or two source files, the two in either order of the walk
SchemeTrees ==
    {<<ProjectFile(<<"Startup.cs">>, a)>> : a \in SchemeTexts}
    \cup {<<ProjectFile(<<"Startup.cs">>, a), ProjectFile(<<"Auth", "Setup.cs">>, b)>> :
            a \in SchemeTexts, b \in SchemeTexts}
    \cup {<<ProjectFile(<<"Auth", "Setup.cs">>, b), ProjectFile(<<"Startup.cs">>, a)>> :
            a \in SchemeTexts, b \in SchemeTexts}

InitSchemes ==
    /\ NoCalls
    /\ project_tree \in SchemeTrees
    /\ inventory = None
    /\ diagnostics = <<>>
    /\ assess_pc = "new"
    /\ MapIdle /\ SnakeIdle /\ GenIdle /\ ReadIdle /\ RazorIdle /\ BackendIdle

SpecSchemes == InitSchemes /\ [][NextAssess]_vars

\* _detect_authentication has run
SchemeRecorded == assess_pc \in {"_detect_authentication", "assessed"}

\* the scheme recorded when the walk yields the same files in the opposite order
SchemeOfReversedWalk ==
    AuthenticationFrom(GlobAll(Reversed(project_tree), ".cs"), 1).authentication

\* C28: the scheme _detect_authentication records for a project does not
\* depend on the order in which the directory walk yields the files: the
\* same files walked in the opposite order give the same scheme.
C28_SchemeIndependentOfWalkOrder ==
    SchemeRecorded => inventory.authentication = SchemeOfReversedWalk

\* a scheme is recorded for a project where one file calls AddCookie and
\* another AddIdentity
C28_Witness ==
    /\ SchemeRecorded
    /\ Len(project_tree) = 2
    /\ SchemeIn(project_tree[1].content) = "Cookie Authentication"
    /\ SchemeIn(project_tree[2].content) = "ASP.NET Identity"
    /\ inventory.authentication \in {"Cookie Authentication", "ASP.NET Identity"}

-----------------------------------------------------------------------------
(* Source files declaring two classes                                      *)

\* the fields a class of the file declares
MaxFields == 2

OrderFields == {FieldOf("int", "Id"), FieldOf("decimal", "Total")}
CustomerFields == {FieldOf("int", "Id"), FieldOf("string", "Name")}

FieldSeqs(fields) == UNION {[1..n -> fields] : n \in 0..MaxFields}

\* a class declaration with the given fields as its body
ClassDecl(class_name, decls) ==
    <<"public", "class", class_name, "{">> \o Flatten(decls) \o <<"}">>

\* a file declaring the classes Order and Customer in one namespace
TwoClassText(order_fields, customer_fields) ==
    <<"namespace", "Shop.Models", "{">>
        \o ClassDecl("Order", order_fields) \o ClassDecl("Customer", customer_fields)
        \o <<"}">>

TwoClassTexts ==
    {TwoClassText(o, c) : o \in FieldSeqs(OrderFields), c \in FieldSeqs(CustomerFields)}

\* either tool is run over a directory holding the one file
InitTwoClasses ==
    /\ NoCalls
    /\ \/ /\ gen_tree \in {<<SourceFile("Models/Shop.cs", SmallSize, TRUE, text)>> :
                             text \in TwoClassTexts}
          /\ framework_arg \in {"sqlalchemy", "django"}
          /\ target_framework = ""
          /\ models = <<>>
          /\ models_py = <<>>
          /\ migration_guide = <<>>
          /\ gen_pc = "new"
          /\ AssessIdle
       \/ /\ project_tree \in {<<ProjectFile(<<"Models", "Shop.cs">>, text)>> :
                                 text \in TwoClassTexts}
          /\ inventory = None
          /\ diagnostics = <<>>
          /\ assess_pc = "new"
          /\ GenIdle
    /\ MapIdle /\ SnakeIdle /\ ReadIdle /\ RazorIdle /\ BackendIdle

NextTwoClasses == NextGen \/ NextAssess

SpecTwoClasses == InitTwoClasses /\ [][NextTwoClasses]_vars

\* the names of the fields of a declaration list / of a property list
DeclaredNames(decls) == [i \in 1..Len(decls) |-> decls[i][3]]
PropertyNames(properties) == [i \in 1..Len(properties) |-> properties[i].name]

\* the entities are the two classes, each with its own fields
OwnEntities(entities, order_fields, customer_fields) ==
    /\ Len(entities) = 2
    /\ entities[1].name = "Order"
    /\ PropertyNames(entities[1].properties) = DeclaredNames(order_fields)
    /\ entities[2].name = "Customer"
    /\ PropertyNames(entities[2].properties) = DeclaredNames(customer_fields)

\* _scan_models of the assessor has run
ModelsScanned == assess_pc \notin {"idle", "new", "constructed", "_detect_project_type",
                                   "_scan_controllers", "raised"}

\* C29: for a source file declaring two classes, MigrationGenerator (through
\* _parse_model) and DotNetAssessor._scan_models each extract every class as
\* its own entity, holding the fields of that class and no field of the other.
C29_EachClassItsOwnEntity ==
    \A o \in FieldSeqs(OrderFields), c \in FieldSeqs(CustomerFields) :
        /\ (Scanned /\ gen_tree[1].content = TwoClassText(o, c)) =>
              OwnEntities(models, o, c)
        /\ (ModelsScanned /\ project_tree[1].content = TwoClassText(o, c)) =>
              OwnEntities(inventory.models, o, c)

\* the file with the fields Id and Total in Order and Name in Customer has
\* been scanned by either tool
C29_Witness ==
    LET text == TwoClassText(<<FieldOf("int", "Id"), FieldOf("decimal", "Total")>>,
                             <<FieldOf("string", "Name")>>)
    IN  \/ Scanned /\ gen_tree[1].content = text /\ models # <<>>
        \/ ModelsScanned /\ project_tree[1].content = text /\ inventory.models # <<>>

\* the views of the list for which convert_directory wrote a component file
ViewsSaved ==
    {k \in DOMAIN razor_files :
        \E c \in DOMAIN components : components[c].path = WithSuffixJsx(razor_files[k].path)}

\* the views of the list named by a line of the report
ViewsListed ==
    {k \in DOMAIN razor_files :
        \E l \in DOMAIN report : report[l] = "- " \o PathText(razor_files[k].path)}

\* C30: the report convert_directory writes counts and lists as converted
\* only the files for which a .jsx file was written: a file whose conversion
\* raised is neither counted in 'Total files converted' nor listed under
\* 'Files Converted'.
C30_ReportOnlyConverted ==
    (razor_pc = "done" /\ report # <<>>) =>
        /\ \E l \in DOMAIN report :
              report[l] = "Total files converted: " \o Decimal(Cardinality(ViewsSaved))
        /\ ViewsListed \subseteq ViewsSaved

\* the report is written for a directory of two views, one of which could
\* not be read while the other was converted and saved
C30_Witness ==
    /\ razor_pc = "done"
    /\ report # <<>>
    /\ Len(razor_files) = 2
    /\ Cardinality(ViewsSaved) = 1
    /\ \E k \in DOMAIN razor_files : ~razor_files[k].readable

====
